---- MODULE Spec2Model ----
(***************************************************************************)
(* A model of the financial table extractor                               *)
(* src/shared/skills/fin-extract/scripts/extract_tables.py.               *)
(*                                                                         *)
(* A Python str is a sequence of characters; a character is a one-element  *)
(* token ("1", ",", "a", ...).  Characters that are awkward to write are   *)
(* named: LF is "\n", NBSP is U+00A0, MINUS is U+2212, ENDASH is U+2013,    *)
(* EMDASH is U+2014.  Python's None is the value None below, which is no    *)
(* string over these characters.                                           *)
(***************************************************************************)
EXTENDS Integers, Sequences, FiniteSets, TLC

VARIABLES
    \* the fmt argument of normalize_number_string / validate_row_totals
    fmt,
    \* the cell step of validate_row_totals
    raw, normalized, d, nums, exc, npc,
    \* detect_number_format
    cells, en_evidence, es_evidence, detected, dpc,
    \* validate_row_totals
    rows, validations, vexc, vpc,
    \* detect_artifact_columns
    table, strip_count, apc,
    \* main: the document (the raw tables extract_tables_from_page and
    \* extract_table_with_words give for each page), the page numbers asked
    \* for, and the locals of main
    pdf_pages, pages, mpc, page_pos, all_cells, page_tables, main_fmt,
    table_pos, csv_files, metadata_tables,
    \* main: the fmt argument of every process_table / validate_row_totals
    \* call so far, and the number of detect_number_format calls so far
    fmt_passed, detect_calls,
    \* clean_presentation_artifacts: the table given, and the locals after each stage
    c_table, c_strip_count, c_stripped, c_merge_cols, c_merged, c_cleaned, cpc,
    \* is_footnote_row: the row given and the value returned
    f_row, is_footnote, fpc,
    \* extract_tables_from_page: what each strategy gives on the page, the loop position and the locals, the value returned and what main reports for the page
    outcomes, s_pos, best_tables, best_cell_count, sel_result, page_report, spc,
    \* extract_table_with_words: the words of the page, the cell boxes of the table and what table.extract gives; the locals; the best_cell of every word so far; the value returned
    w_words, w_cells, w_extract, row_keys, col_positions, grid, w_pos, best_cells, cell_texts, w_result, wpc,
    \* validate_row_totals on numbers longer than the decimal context's precision
    big_rows, big_fmt, big_validations, bpc,
    \* process_table: the raw table and what the call returns
    proc_table, proc_result, ppc,
    \* todo-enforcer.py: the config file, the last decision and its session, the block decisions received in a row
    todo_config, todo_decision, todo_session, blocks_in_row,
    \* stop-hook.py: the state file, the last decision, the iteration the file started with and the block decisions since
    ralph_file, ralph_decision, ralph_first, ralph_blocks

normVars == <<raw, normalized, d, nums, exc, npc>>

detVars == <<cells, en_evidence, es_evidence, detected, dpc>>

valVars == <<rows, validations, vexc, vpc>>

artVars == <<table, strip_count, apc>>

mainVars ==
    <<pdf_pages, pages, mpc, page_pos, all_cells, page_tables, main_fmt,
      table_pos, csv_files, metadata_tables, fmt_passed, detect_calls>>

cleanVars == <<c_table, c_strip_count, c_stripped, c_merge_cols, c_merged, c_cleaned, cpc>>

footVars == <<f_row, is_footnote, fpc>>

selVars == <<outcomes, s_pos, best_tables, best_cell_count, sel_result, page_report, spc>>

wordVars == <<w_words, w_cells, w_extract, row_keys, col_positions, grid, w_pos, best_cells, cell_texts, w_result, wpc>>

precVars == <<big_rows, big_fmt, big_validations, bpc>>

procVars == <<proc_table, proc_result, ppc>>

todoVars == <<todo_config, todo_decision, todo_session, blocks_in_row>>

ralphVars == <<ralph_file, ralph_decision, ralph_first, ralph_blocks>>

vars == <<fmt, normVars, detVars, valVars, artVars, mainVars, cleanVars, footVars, selVars, wordVars, precVars, procVars, todoVars, ralphVars>>

(***************************************************************************)
(* Characters and strings                                                  *)
(***************************************************************************)
LF == "LF"
NBSP == "u00a0"
MINUS == "u2212"
ENDASH == "u2013"
EMDASH == "u2014"

None == <<"None">>

Digits == {"0", "1", "2", "3", "4", "5", "6", "7", "8", "9"}

\* str.isspace() / the regex class \s, over the characters of the model
Whitespace == {" ", LF, NBSP}

DigitVal(c) ==
    CASE c = "0" -> 0 [] c = "1" -> 1 [] c = "2" -> 2 [] c = "3" -> 3
      [] c = "4" -> 4 [] c = "5" -> 5 [] c = "6" -> 6 [] c = "7" -> 7
      [] c = "8" -> 8 [] c = "9" -> 9

\* A local variable: v is computed once and F is applied to its value
Local(v, F(_)) == CHOOSE y \in {F(x) : x \in {v}} : TRUE

SetMin(S) == CHOOSE x \in S : \A y \in S : x <= y
SetMax(S) == CHOOSE x \in S : \A y \in S : x >= y

Drop(s, n) == IF n >= Len(s) THEN <<>> ELSE SubSeq(s, n + 1, Len(s))

StartsWith(s, p) == Len(s) >= Len(p) /\ SubSeq(s, 1, Len(p)) = p

\* str.strip()
Strip(s) ==
    LET keep == {i \in 1..Len(s) : s[i] \notin Whitespace}
    IN  IF keep = {} THEN <<>> ELSE SubSeq(s, SetMin(keep), SetMax(keep))

\* str.lstrip(), and a leading \s* of a regex
LStrip(s) ==
    LET keep == {i \in 1..Len(s) : s[i] \notin Whitespace}
    IN  IF keep = {} THEN <<>> ELSE SubSeq(s, SetMin(keep), Len(s))

\* s.replace(c, "") for a one-character c
RemoveChar(s, c) == SelectSeq(s, LAMBDA x : x # c)

\* s.replace(a, b) for one-character a and b
ReplaceChar(s, a, b) == [i \in 1..Len(s) |-> IF s[i] = a THEN b ELSE s[i]]

\* re.search(r"\d", s)
HasDigit(s) == \E i \in 1..Len(s) : s[i] \in Digits

AllDigits(s) == \A i \in 1..Len(s) : s[i] \in Digits

\* The regex anchor $ at position i (1-based, the next character to read):
\* the end of the string, or just before a final newline.
AtDollar(s, i) == i = Len(s) + 1 \/ (i = Len(s) /\ s[i] = LF)

(***************************************************************************)
(* The compiled patterns                                                   *)
(***************************************************************************)
\* CURRENCY_PREFIX.sub("", s): the pattern is anchored at the start, so at
\* most one match, the leading whitespace and one currency token with the
\* whitespace after it, is removed.
CurrencyToken(t) ==
    IF StartsWith(t, <<"P", "s", ".">>) THEN 3
    ELSE IF StartsWith(t, <<"P", "s">>) THEN 2
    ELSE IF StartsWith(t, <<"M", "X", "N">>) THEN 3
    ELSE IF StartsWith(t, <<"U", "S", "D">>) THEN 3
    ELSE IF StartsWith(t, <<"U", "S", "$">>) THEN 3
    ELSE IF StartsWith(t, <<"$">>) THEN 1
    ELSE 0

CURRENCY_PREFIX_sub(s) ==
    LET t == LStrip(s)
        k == CurrencyToken(t)
    IN  IF k = 0 THEN s ELSE LStrip(Drop(t, k))

\* PARENTHETICAL_NEG.match(s): optional whitespace, "(", a non-empty body of
\* digits, commas, periods and whitespace, ")", optional whitespace.
ParenBodyChars == Digits \cup {",", "."} \cup Whitespace

PARENTHETICAL_NEG_match(s) ==
    LET t == Strip(s)
    IN  /\ Len(t) >= 3
        /\ t[1] = "("
        /\ t[Len(t)] = ")"
        /\ \A i \in 2..(Len(t) - 1) : t[i] \in ParenBodyChars

\* paren_match.group(1).strip()
ParenGroupStripped(s) ==
    LET t == Strip(s) IN Strip(SubSeq(t, 2, Len(t) - 1))

\* A full match of \d+\.?\d*
PlainShape(s) ==
    \E k \in 1..Len(s) :
        /\ AllDigits(SubSeq(s, 1, k))
        /\ \/ k = Len(s)
           \/ /\ s[k + 1] = "."
              /\ AllDigits(SubSeq(s, k + 2, Len(s)))

\* re.match(r"^\d+\.?\d*$", s): $ also matches before a final newline
NumberShapeMatch(s) ==
    \/ PlainShape(s)
    \/ /\ Len(s) >= 1
       /\ s[Len(s)] = LF
       /\ PlainShape(SubSeq(s, 1, Len(s) - 1))

(***************************************************************************)
(* Number Normalizer                                                       *)
(***************************************************************************)
\* The sign flag with the parenthesis test forgotten
NegFlag_minusOnly(paren_match, leading_minus) == leading_minus

\* lines 164-167: the sign flag after the parenthesis and the minus tests
NegFlag(paren_match, leading_minus) == paren_match \/ leading_minus

\* The two format branches exchanged
ApplyFormat_swapped(s, f) ==
    IF f = "es"
    THEN RemoveChar(s, ",")
    ELSE ReplaceChar(RemoveChar(s, "."), ",", ".")

\* lines 174-178: remove the thousands separators, decimal marker to "."
ApplyFormat(s, f) ==
    IF f = "es"
    THEN ReplaceChar(RemoveChar(s, "."), ",", ".")
    ELSE RemoveChar(s, ",")

\* lines 171-172: a lone dash is the literal zero
IsLoneDash(s) == s = <<"-">> \/ s = <<EMDASH>> \/ s = <<ENDASH>>

\* lines 152-154: the early return for a cell with no text or no digit
NotNumericText(s) == s = <<>> \/ ~HasDigit(s)

normalize_number_string(r, f) ==
    IF r = None THEN None
    ELSE
    LET s0 == Strip(r) IN
    IF NotNumericText(s0) THEN None
    ELSE
    LET s1 == Strip(CURRENCY_PREFIX_sub(s0))
        paren_match == PARENTHETICAL_NEG_match(s1)
        s2 == IF paren_match THEN ParenGroupStripped(s1) ELSE s1
        s3 == ReplaceChar(ReplaceChar(s2, MINUS, "-"), ENDASH, "-")
        leading_minus == StartsWith(s3, <<"-">>)
        neg == NegFlag(paren_match, leading_minus)
        s4 == IF leading_minus THEN Strip(Drop(s3, 1)) ELSE s3
        s5 == RemoveChar(RemoveChar(s4, " "), NBSP)
    IN
    IF IsLoneDash(s5) THEN <<"0">>
    ELSE
    LET s6 == ApplyFormat(s5, f) IN
    IF ~NumberShapeMatch(s6) THEN None
    ELSE IF neg THEN <<"-">> \o s6 ELSE s6

(***************************************************************************)
(* Exact decimals.  A Decimal is sign, coefficient and the number of       *)
(* fractional digits (Python's exponent negated); NoDecimal is None where  *)
(* a Decimal is expected.  A call returns [exc, val]: exc is "none" or the *)
(* exception that left the call.                                           *)
(***************************************************************************)
NoDecimal == [none |-> TRUE]

Dec(sign, coef, frac) == [none |-> FALSE, sign |-> sign, coef |-> coef, exp |-> frac]

Returned(v) == [exc |-> "none", val |-> v]
Raised(e) == [exc |-> e, val |-> NoDecimal]

RECURSIVE NatOf(_)
NatOf(s) ==
    IF s = <<>> THEN 0
    ELSE 10 * NatOf(SubSeq(s, 1, Len(s) - 1)) + DigitVal(s[Len(s)])

\* Decimal(s) for a str s: surrounding whitespace is ignored, then an
\* optional sign, digits with at most one ".", at least one digit.
\* (Exponents, "Infinity" and "NaN" need letters and are not modelled.)
DecimalCtor(s) ==
    IF s = None THEN Raised("TypeError")
    ELSE
    LET t == Strip(s)
        signed == Len(t) >= 1 /\ t[1] \in {"-", "+"}
        b == IF signed THEN Drop(t, 1) ELSE t
        dots == {i \in 1..Len(b) : b[i] = "."}
        ip == IF dots = {} THEN b ELSE SubSeq(b, 1, SetMin(dots) - 1)
        fp == IF dots = {} THEN <<>> ELSE Drop(b, SetMin(dots))
    IN  IF /\ Cardinality(dots) <= 1
           /\ AllDigits(ip)
           /\ AllDigits(fp)
           /\ Len(ip) + Len(fp) >= 1
        THEN Returned(Dec(IF signed /\ t[1] = "-" THEN 1 ELSE 0,
                          NatOf(ip \o fp), Len(fp)))
        ELSE Raised("InvalidOperation")

\* to_decimal without its test for None
to_decimal_noNoneTest(s) ==
    LET r == DecimalCtor(s)
    IN  IF r.exc \in {"InvalidOperation", "ValueError"}
        THEN Returned(NoDecimal)
        ELSE r

to_decimal(s) ==
    IF s = None THEN Returned(NoDecimal)
    ELSE
    LET r == DecimalCtor(s)
    IN  IF r.exc \in {"InvalidOperation", "ValueError"}
        THEN Returned(NoDecimal)
        ELSE r

\* lines 413-416: one cell, the exception that left the step and what it
\* appends to nums
CellNums(cell, f) ==
    Local(normalize_number_string(cell, f), LAMBDA n :
    Local(to_decimal(n), LAMBDA r :
        [exc |-> r.exc,
         normalized |-> n,
         d |-> r.val,
         add |-> IF r.exc = "none" /\ r.val # NoDecimal
                 THEN <<<<n, r.val>>>>
                 ELSE <<>>]))

(***************************************************************************)
(* The cell step of the Row Validator (validate_row_totals, lines 412-416) *)
(* on one raw cell: normalize, convert, collect.                           *)
(***************************************************************************)
MaxLen == 4

EnumChars == {"1", ",", ".", " ", "-", "(", ")", LF, EMDASH}

Formats == {"en", "es"}

\* The variables of a part of the program that a specification does not run
NormIdle ==
    /\ raw = None
    /\ normalized = None
    /\ d = NoDecimal
    /\ nums = <<>>
    /\ exc = "none"
    /\ npc = "idle"

ValIdle ==
    /\ rows = <<>>
    /\ validations = <<>>
    /\ vexc = "none"
    /\ vpc = "idle"

MainIdle ==
    /\ pdf_pages = <<>>
    /\ pages = <<>>
    /\ mpc = "idle"
    /\ page_pos = 1
    /\ all_cells = <<>>
    /\ page_tables = <<>>
    /\ main_fmt = "unset"
    /\ table_pos = <<1, 1>>
    /\ csv_files = <<>>
    /\ metadata_tables = <<>>
    /\ fmt_passed = <<>>
    /\ detect_calls = 0

CleanIdle ==
    /\ c_table = <<>>
    /\ c_strip_count = 0
    /\ c_stripped = <<>>
    /\ c_merge_cols = {}
    /\ c_merged = <<>>
    /\ c_cleaned = <<>>
    /\ cpc = "idle"

FootIdle ==
    /\ f_row = <<>>
    /\ is_footnote = FALSE
    /\ fpc = "idle"

SelIdle ==
    /\ outcomes = <<>>
    /\ s_pos = 1
    /\ best_tables = <<>>
    /\ best_cell_count = 0
    /\ sel_result = <<>>
    /\ page_report = "none"
    /\ spc = "idle"

WordIdle ==
    /\ w_words = <<>>
    /\ w_cells = <<>>
    /\ w_extract = <<>>
    /\ row_keys = <<>>
    /\ col_positions = <<>>
    /\ grid = <<>>
    /\ w_pos = 1
    /\ best_cells = <<>>
    /\ cell_texts = <<>>
    /\ w_result = <<>>
    /\ wpc = "idle"

PrecIdle ==
    /\ big_rows = <<>>
    /\ big_fmt = "en"
    /\ big_validations = <<>>
    /\ bpc = "idle"

ProcIdle ==
    /\ proc_table = <<>>
    /\ proc_result = [data_rows |-> <<>>, footnotes |-> <<>>, raw |-> <<>>]
    /\ ppc = "idle"

TodoIdle ==
    /\ todo_config = [enabled |-> TRUE, block_count |-> 0, last_block_session |-> "none"]
    /\ todo_decision = "idle"
    /\ todo_session = "none"
    /\ blocks_in_row = 0

RalphIdle ==
    /\ ralph_file = [exists |-> FALSE, frontmatter |-> <<>>, promise |-> FALSE, prompt |-> FALSE]
    /\ ralph_decision = "idle"
    /\ ralph_first = 0
    /\ ralph_blocks = 0

ArtIdle ==
    /\ table = <<>>
    /\ strip_count = 0
    /\ apc = "idle"

DetIdle ==
    /\ cells = <<>>
    /\ en_evidence = 0
    /\ es_evidence = 0
    /\ detected = "unset"
    /\ dpc = "idle"

StringsUpTo(n, alphabet) == UNION {[1..k -> alphabet] : k \in 0..n}

LabelSample == <<"R", "e", "v", "e", "n", "u", "e">>

ParenSample == <<"(", "1", ",", "2", "3", "4", ".", "5", "0", ")">>
MinusSample == <<"-", "1", ",", "2", "3", "4", ".", "5", "0">>
NormalizedSample == <<"-", "1", "2", "3", "4", ".", "5", "0">>

\* 0.0000001: str() of its Decimal is "1E-7"
SmallSample == <<"0", ".", "0", "0", "0", "0", "0", "0", "1">>

SampleCells ==
    { None, ParenSample, SmallSample, MinusSample, NormalizedSample, LabelSample,
      <<"1", ".", "2", "3", "4", ",", "5", "6">>,
      <<"$", " ", "1", ",", "2", "3", "4">>,
      <<"P", "s", ".", " ", "(", "1", ",", "5", ")">>,
      <<"U", "S", "$", "1", "2", ".", "5">>,
      <<MINUS, " ", "1", "2">>,
      <<ENDASH, "1">>,
      <<ENDASH>>,
      <<"1", NBSP, "0", "0", "0">> }

RawCells == StringsUpTo(MaxLen, EnumChars) \cup SampleCells

NormInit ==
    /\ raw \in RawCells
    /\ fmt \in Formats
    /\ normalized = None
    /\ d = NoDecimal
    /\ nums = <<>>
    /\ exc = "none"
    /\ npc = "cell"

NormalizeCell ==
    /\ npc = "cell"
    /\ \E c \in {CellNums(raw, fmt)} :
           /\ normalized' = c.normalized
           /\ exc' = c.exc
           /\ d' = c.d
           /\ nums' = nums \o c.add
    /\ npc' = "done"
    /\ UNCHANGED <<raw, fmt>>

NormNext == NormalizeCell /\ UNCHANGED <<detVars, valVars, artVars, mainVars, cleanVars, footVars, selVars, wordVars, precVars, procVars, todoVars, ralphVars>>

InitNorm == NormInit /\ DetIdle /\ ValIdle /\ ArtIdle /\ MainIdle /\ CleanIdle /\ FootIdle /\ SelIdle /\ WordIdle /\ PrecIdle /\ ProcIdle /\ TodoIdle /\ RalphIdle

SpecNorm == InitNorm /\ [][NormNext]_vars

(***************************************************************************)
(* Properties of the Number Normalizer                                     *)
(***************************************************************************)
DigitBodyChars == Digits \cup {",", ".", " "}

IsParenthesized(s) ==
    /\ s # None
    /\ Len(s) >= 2
    /\ s[1] = "("
    /\ s[Len(s)] = ")"
    /\ \A i \in 2..(Len(s) - 1) : s[i] \in DigitBodyChars

ParenBody(s) == SubSeq(s, 2, Len(s) - 1)

\* An optional "-", digits, an optional "." and fractional digits
NormalizedShape(s) ==
    /\ s # None
    /\ PlainShape(IF StartsWith(s, <<"-">>) THEN Drop(s, 1) ELSE s)

\* C1: a parenthesized digit body normalizes exactly as the same body with a
\* minus prefix, under either format; "(1,234.50)" and "-1,234.50" both give
\* "-1234.50" under comma-thousands.
C1_ParenSameAsMinus ==
    /\ (npc = "done" /\ IsParenthesized(raw))
         => normalized = normalize_number_string(<<"-">> \o ParenBody(raw), fmt)
    /\ (npc = "done" /\ fmt = "en" /\ raw \in {ParenSample, MinusSample})
         => normalized = NormalizedSample

C1_Witness ==
    /\ npc = "done"
    /\ fmt = "en"
    /\ raw = ParenSample
    /\ normalized = NormalizedSample

\* C2 as stated: an already-normalized number string is returned unchanged
\* under every format.
C2_IdempotentEveryFormat ==
    (npc = "done" /\ NormalizedShape(raw)) => normalized = raw

\* C2 amended: an already-normalized number string is returned unchanged
\* under comma-thousands, and under period-thousands when it has no ".";
\* under period-thousands a "." is removed as a thousands separator.
C2_IdempotentCommaThousands ==
    (npc = "done" /\ NormalizedShape(raw)) =>
        /\ (fmt = "en" \/ \A i \in 1..Len(raw) : raw[i] # ".") => normalized = raw
        /\ fmt = "es" => normalized = RemoveChar(raw, ".")

C2_Witness ==
    /\ npc = "done"
    /\ fmt = "en"
    /\ raw = NormalizedSample
    /\ normalized = raw

\* C3: the result is None or a Normalized Number String: an optional "-",
\* digits, an optional "." and fractional digits, and nothing else (no
\* separator, whitespace or currency symbol).
C3_ResultIsNormalized ==
    npc = "done" => (normalized = None \/ NormalizedShape(normalized))

\* C4: a cell that is only a dash or em-dash, optionally surrounded by
\* whitespace, normalizes to "0" under either format.
C4_LoneDashIsZero ==
    (npc = "done" /\ raw # None /\ IsLoneDash(Strip(raw))) => normalized = <<"0">>

\* C5: the cell step never raises; a cell that does not resolve to a number
\* yields None, converts to no Decimal and is left out of the numeric cells.
C5_AbsentNotRaised ==
    npc = "done" =>
        /\ exc = "none"
        /\ normalized = None => (d = NoDecimal /\ nums = <<>>)
        /\ normalized # None => (d # NoDecimal /\ nums = <<<<normalized, d>>>>)

C5_Witness ==
    /\ npc = "done"
    /\ raw # None
    /\ HasDigit(raw)
    /\ normalized = None
    /\ nums = <<>>
    /\ exc = "none"

(***************************************************************************)
(* Number-Format Detector                                                  *)
(***************************************************************************)
\* re.sub(r"[()−–-]", "", s)
RemoveSignMarks(s) == SelectSeq(s, LAMBDA x : x \notin {"(", ")", MINUS, ENDASH, "-"})

\* \d<sep>\d{3} starting at position i
GroupAt(s, i, sep) ==
    /\ i >= 1
    /\ i + 4 <= Len(s)
    /\ s[i] \in Digits
    /\ s[i + 1] = sep
    /\ \A j \in (i + 2)..(i + 4) : s[j] \in Digits

\* re.search of \d<sep>\d{3}<next>
GroupThenChar(s, sep, next) ==
    \E i \in 1..Len(s) : GroupAt(s, i, sep) /\ i + 5 <= Len(s) /\ s[i + 5] = next

\* re.search of \d<sep>\d{3}$
GroupAtEnd(s, sep) ==
    \E i \in 1..Len(s) : GroupAt(s, i, sep) /\ AtDollar(s, i + 5)

Contains(s, c) == \E i \in 1..Len(s) : s[i] = c

\* The vote of one cell with the trailing bare groups of lines 133-136 left out
CellEvidence_fullOnly(cell) ==
    IF cell = None THEN "none"
    ELSE
    LET cleaned == Strip(RemoveSignMarks(Strip(CURRENCY_PREFIX_sub(cell))))
    IN  IF GroupThenChar(cleaned, ",", ".") THEN "en"
        ELSE IF GroupThenChar(cleaned, ".", ",") THEN "es"
        ELSE "none"

\* lines 124-136: the vote of one cell
CellEvidence(cell) ==
    IF cell = None THEN "none"
    ELSE
    LET cleaned == Strip(RemoveSignMarks(Strip(CURRENCY_PREFIX_sub(cell))))
    IN  IF GroupThenChar(cleaned, ",", ".") THEN "en"
        ELSE IF GroupThenChar(cleaned, ".", ",") THEN "es"
        ELSE IF GroupAtEnd(cleaned, ",") /\ ~Contains(cleaned, ".") THEN "en"
        ELSE IF GroupAtEnd(cleaned, ".") /\ ~Contains(cleaned, ",") THEN "es"
        ELSE "none"

\* lines 120-136: the loop over the pool, <<en_evidence, es_evidence>>
RECURSIVE CountEvidence(_, _, _)
CountEvidence(pool, en, es) ==
    IF pool = <<>> THEN <<en, es>>
    ELSE LET v == CellEvidence(Head(pool))
         IN  CountEvidence(Tail(pool),
                           IF v = "en" THEN en + 1 ELSE en,
                           IF v = "es" THEN es + 1 ELSE es)

\* The decision with >= for >
FormatDecision_orEqual(en, es) == IF es >= en THEN "es" ELSE "en"

\* line 138
FormatDecision(en, es) == IF es > en THEN "es" ELSE "en"

detect_number_format(pool) ==
    LET c == CountEvidence(pool, 0, 0) IN FormatDecision(c[1], c[2])

MaxPool == 3

EnFull == <<"1", ",", "2", "3", "4", ".", "5", "6">>
EnFull2 == <<"2", ",", "5", "0", "0", ".", "0", "0">>
EsFull == <<"1", ".", "2", "3", "4", ",", "5", "6">>
EsFull2 == <<"2", ".", "5", "0", "0", ",", "0", "0">>
EnBare == <<"1", ",", "2", "3", "4">>
EsBare == <<"1", ".", "2", "3", "4">>

\* 1.234,567: "1.234," is period-thousands evidence and ",567" a trailing group
EsFullGroup == <<"1", ".", "2", "3", "4", ",", "5", "6", "7">>

PoolCells == {None, LabelSample, EnFull, EnFull2, EsFull, EsFull2, EnBare, EsBare, EsFullGroup}

DetInit ==
    /\ cells \in StringsUpTo(MaxPool, PoolCells)
    /\ en_evidence = 0
    /\ es_evidence = 0
    /\ detected = "unset"
    /\ dpc = "call"

Detect ==
    /\ dpc = "call"
    /\ LET c == CountEvidence(cells, 0, 0)
       IN  /\ en_evidence' = c[1]
           /\ es_evidence' = c[2]
    /\ detected' = detect_number_format(cells)
    /\ dpc' = "done"
    /\ UNCHANGED cells

DetNext == Detect /\ UNCHANGED <<fmt, normVars, valVars, artVars, mainVars, cleanVars, footVars, selVars, wordVars, precVars, procVars, todoVars, ralphVars>>

InitDetect == DetInit /\ fmt = "en" /\ NormIdle /\ ValIdle /\ ArtIdle /\ MainIdle /\ CleanIdle /\ FootIdle /\ SelIdle /\ WordIdle /\ PrecIdle /\ ProcIdle /\ TodoIdle /\ RalphIdle

SpecDetect == InitDetect /\ [][DetNext]_vars

\* C6: the detector is a majority vote over the pool: "es" only when strictly
\* more cells vote period-thousands than comma-thousands, "en" on a tie and
\* with no evidence; a cell gives at most one vote.
Votes(kind) == {i \in 1..Len(cells) : CellEvidence(cells[i]) = kind}

C6_MajorityVote ==
    dpc = "done" =>
        /\ en_evidence = Cardinality(Votes("en"))
        /\ es_evidence = Cardinality(Votes("es"))
        /\ en_evidence + es_evidence <= Len(cells)
        /\ detected \in Formats
        /\ detected = "es" <=> Cardinality(Votes("es")) > Cardinality(Votes("en"))
        /\ cells = <<EnFull, EnFull2>> => detected = "en"
        /\ cells = <<EsFull, EsFull2>> => detected = "es"
        /\ (\A i \in 1..Len(cells) : cells[i] \in {None, LabelSample}) => detected = "en"

\* a tie with evidence on both sides, decided for comma-thousands
C6_Witness ==
    /\ dpc = "done"
    /\ en_evidence = 1
    /\ es_evidence = 1
    /\ detected = "en"

(***************************************************************************)
(* Decimal arithmetic and str(Decimal).  The context precision (28 digits) *)
(* is not reached by the values these operators are applied to; the        *)
(* rounding of longer coefficients is modelled by BigFix further down.     *)
(***************************************************************************)
RECURSIVE Pow10(_)
Pow10(n) == IF n = 0 THEN 1 ELSE 10 * Pow10(n - 1)

Max2(a, b) == IF a >= b THEN a ELSE b

Abs(x) == IF x < 0 THEN 0 - x ELSE x

\* The signed coefficient of x at frac fractional digits (frac >= x.exp)
Signed(x, frac) ==
    (IF x.sign = 1 THEN 0 - x.coef ELSE x.coef) * Pow10(frac - x.exp)

OfSigned(v, frac) == Dec(IF v < 0 THEN 1 ELSE 0, Abs(v), frac)

\* a + b, a - b: the exponent is the smaller one; the zero sums of the
\* validator, which start from int 0, are positive
DecAdd(a, b) ==
    LET frac == Max2(a.exp, b.exp)
    IN  OfSigned(Signed(a, frac) + Signed(b, frac), frac)

DecSub(a, b) ==
    LET frac == Max2(a.exp, b.exp)
    IN  OfSigned(Signed(a, frac) - Signed(b, frac), frac)

DecAbs(a) == Dec(0, a.coef, a.exp)

\* a == b: equality of the values
DecEq(a, b) ==
    LET frac == Max2(a.exp, b.exp)
    IN  Signed(a, frac) = Signed(b, frac)

DigitChar(n) ==
    CASE n = 0 -> "0" [] n = 1 -> "1" [] n = 2 -> "2" [] n = 3 -> "3"
      [] n = 4 -> "4" [] n = 5 -> "5" [] n = 6 -> "6" [] n = 7 -> "7"
      [] n = 8 -> "8" [] n = 9 -> "9"

\* str(n) for an int n >= 0
RECURSIVE NatStr(_)
NatStr(n) ==
    IF n < 10 THEN <<DigitChar(n)>>
    ELSE Append(NatStr(n \div 10), DigitChar(n % 10))

Zeros(n) == [i \in 1..n |-> "0"]

\* str(x) for a Decimal x (decimal.Decimal.__str__)
DecStr(x) ==
    LET digits == NatStr(x.coef)
        leftdigits == Len(digits) - x.exp
        dotplace == IF leftdigits > -6 THEN leftdigits ELSE 1
        intpart ==
            IF dotplace <= 0 THEN <<"0">>
            ELSE IF dotplace >= Len(digits)
                 THEN digits \o Zeros(dotplace - Len(digits))
                 ELSE SubSeq(digits, 1, dotplace)
        fracpart ==
            IF dotplace <= 0 THEN <<".">> \o Zeros(0 - dotplace) \o digits
            ELSE IF dotplace >= Len(digits) THEN <<>>
                 ELSE <<".">> \o Drop(digits, dotplace)
        exppart ==
            IF leftdigits = dotplace THEN <<>>
            ELSE <<"E", "-">> \o NatStr(dotplace - leftdigits)
    IN  (IF x.sign = 1 THEN <<"-">> ELSE <<>>) \o intpart \o fracpart \o exppart

(***************************************************************************)
(* Row Validator                                                           *)
(***************************************************************************)
\* lines 411-416: the numeric cells of a row, [exc, nums]
RECURSIVE RowNums(_, _, _)
RowNums(row, f, acc) ==
    IF row = <<>> THEN [exc |-> "none", nums |-> acc]
    ELSE Local(CellNums(Head(row), f), LAMBDA c :
            IF c.exc # "none" THEN [exc |-> c.exc, nums |-> acc]
            ELSE RowNums(Tail(row), f, acc \o c.add))

\* line 423: sum(d for _, d in parts), which starts from int 0
RECURSIVE SumParts(_, _)
SumParts(parts, acc) ==
    IF parts = <<>> THEN acc
    ELSE Local(DecAdd(acc, Head(parts)[2]), LAMBDA s : SumParts(Tail(parts), s))

\* The threshold of line 418, off by one
TooFewNumeric_twoOrFewer(ns) == Len(ns) < 2

\* line 418
TooFewNumeric(ns) == Len(ns) < 3

\* lines 411-435: the result appended for one row
ValidateRow(row_idx, row, f) ==
    Local(RowNums(row, f, <<>>).nums, LAMBDA ns :
    IF TooFewNumeric(ns)
    THEN [row |-> row_idx, status |-> "skipped", reason |-> "fewer than 3 numeric cells"]
    ELSE
    Local(ns[Len(ns)][2], LAMBDA last_val :
    Local(SumParts(SubSeq(ns, 1, Len(ns) - 1), Dec(0, 0, 0)), LAMBDA part_sum :
        IF DecEq(part_sum, last_val)
        THEN [row |-> row_idx, status |-> "pass",
              expected |-> DecStr(last_val), computed |-> DecStr(part_sum)]
        ELSE [row |-> row_idx, status |-> "mismatch",
              expected |-> DecStr(last_val), computed |-> DecStr(part_sum),
              diff |-> Local(DecAbs(DecSub(part_sum, last_val)), DecStr)])))

\* lines 408-437: the loop over the rows
RECURSIVE ValidateLoop(_, _, _, _)
ValidateLoop(rs, f, row_idx, acc) ==
    IF row_idx >= Len(rs) THEN acc
    ELSE ValidateLoop(rs, f, row_idx + 1,
                      Append(acc, ValidateRow(row_idx, rs[row_idx + 1], f)))

validate_row_totals(rs, f) == ValidateLoop(rs, f, 0, <<>>)

\* The exception that leaves validate_row_totals, or "none"
ValidateExc(rs, f) ==
    LET bad == {i \in 1..Len(rs) : RowNums(rs[i], f, <<>>).exc # "none"}
    IN  IF bad = {} THEN "none" ELSE RowNums(rs[SetMin(bad)], f, <<>>).exc

MaxRowLen == 4

N100 == <<"1", "0", "0">>
N50 == <<"5", "0">>
N150 == <<"1", "5", "0">>
N140 == <<"1", "4", "0">>
Neg50 == <<"(", "5", "0", ")">>
NHalf == <<"0", ".", "5">>
N99Half == <<"9", "9", ".", "5">>

ValCells == {None, LabelSample, N100, N150, Neg50, NHalf, N99Half}

PassRow == <<LabelSample, N100, N50, N150>>
MismatchRow == <<LabelSample, N100, N50, N140>>

ValRowLists ==
    {<<r>> : r \in StringsUpTo(MaxRowLen, ValCells)}
        \cup {<<>>, <<PassRow, MismatchRow>>, <<MismatchRow, <<LabelSample, N50>>, PassRow>>}

ValInit ==
    /\ rows \in ValRowLists
    /\ fmt \in Formats
    /\ validations = <<>>
    /\ vexc = "none"
    /\ vpc = "call"

ValidateRows ==
    /\ vpc = "call"
    /\ \E e \in {ValidateExc(rows, fmt)} :
           /\ vexc' = e
           /\ validations' = IF e = "none"
                             THEN validate_row_totals(rows, fmt)
                             ELSE validations
    /\ vpc' = "done"
    /\ UNCHANGED <<rows, fmt>>

ValNext == ValidateRows /\ UNCHANGED <<normVars, detVars, artVars, mainVars, cleanVars, footVars, selVars, wordVars, precVars, procVars, todoVars, ralphVars>>

InitValidate == ValInit /\ NormIdle /\ DetIdle /\ ArtIdle /\ MainIdle /\ CleanIdle /\ FootIdle /\ SelIdle /\ WordIdle /\ PrecIdle /\ ProcIdle /\ TodoIdle /\ RalphIdle

SpecValidate == InitValidate /\ [][ValNext]_vars

\* The cells of a row that normalize to a number, in order
NumericCells(row) ==
    SelectSeq(row, LAMBDA c : normalize_number_string(c, fmt) # None)

\* Fractional digits kept by the exact integer arithmetic of the properties
FracDigits == 3

\* The value of a cell times 10^FracDigits
CellValue(c) ==
    LET x == DecimalCtor(normalize_number_string(c, fmt)).val
    IN  (IF x.sign = 1 THEN 0 - x.coef ELSE x.coef) * Pow10(FracDigits - x.exp)

RECURSIVE SumValues(_)
SumValues(cs) == IF cs = <<>> THEN 0 ELSE CellValue(Head(cs)) + SumValues(Tail(cs))

\* The value of a result string times 10^FracDigits
StringValue(s) ==
    LET x == DecimalCtor(s).val
    IN  (IF x.sign = 1 THEN 0 - x.coef ELSE x.coef) * Pow10(FracDigits - x.exp)

SplitSeparators == {","} \cup Whitespace

\* s.strip().rstrip(",").strip()
RStripCommas(s) ==
    LET keep == {i \in 1..Len(s) : s[i] # ","}
    IN  IF keep = {} THEN <<>> ELSE SubSeq(s, 1, SetMax(keep))

\* The non-empty parts of re.split(r"[,\s]+", s), as <<first, last>> positions
PartSpans(s) ==
    {<<i, j>> \in (1..Len(s)) \X (1..Len(s)) :
        /\ i <= j
        /\ \A k \in i..j : s[k] \notin SplitSeparators
        /\ (i = 1 \/ s[i - 1] \in SplitSeparators)
        /\ (j = Len(s) \/ s[j + 1] \in SplitSeparators)}

\* p.isascii() and p.isdigit() and 0 <= int(p) <= 255
IsColorComponent(p) ==
    /\ AllDigits(p)
    /\ LET nonzero == {i \in 1..Len(p) : p[i] # "0"}
           q == IF nonzero = {} THEN <<>> ELSE SubSeq(p, SetMin(nonzero), Len(p))
       IN  Len(q) <= 3 /\ NatOf(q) <= 255

\* The test with exactly three parts asked for
is_rgb_artifact_threeParts(cell) ==
    IF cell = None THEN TRUE
    ELSE
    LET s == Strip(RStripCommas(Strip(cell)))
    IN  IF s = <<>> THEN TRUE
        ELSE /\ Cardinality(PartSpans(s)) = 3
             /\ \A span \in PartSpans(s) : IsColorComponent(SubSeq(s, span[1], span[2]))

\* lines 199-213
is_rgb_artifact(cell) ==
    IF cell = None THEN TRUE
    ELSE
    LET s == Strip(RStripCommas(Strip(cell)))
    IN  IF s = <<>> THEN TRUE
        ELSE \A span \in PartSpans(s) : IsColorComponent(SubSeq(s, span[1], span[2]))

\* max(len(row) for row in table)
MaxCols(tbl) == SetMax({Len(tbl[i]) : i \in 1..Len(tbl)})

\* line 228 (col_idx counts from 0)
ColumnValues(tbl, col_idx) ==
    [i \in 1..Len(tbl) |-> IF col_idx < Len(tbl[i]) THEN tbl[i][col_idx + 1] ELSE None]

\* v is not None and str(v).strip()
IsNonBlank(v) == v # None /\ Strip(v) # <<>>

\* line 229
NonEmptyValues(tbl, col_idx) == SelectSeq(ColumnValues(tbl, col_idx), IsNonBlank)

\* line 235
ArtifactCount(non_empty) == Len(SelectSeq(non_empty, is_rgb_artifact))

\* The ratio test with >= for >
RatioExceeds_orEqual(artifact_count, n) == 10 * artifact_count >= 7 * n

\* line 236: artifact_count / n > 0.7.  The float quotient is correctly
\* rounded, so it exceeds the double 0.7 exactly when 10 * count > 7 * n.
RatioExceeds(artifact_count, n) == 10 * artifact_count > 7 * n

\* lines 227-239: whether column col_idx is counted as an artifact column
IsArtifactColumn(tbl, col_idx) ==
    Local(NonEmptyValues(tbl, col_idx), LAMBDA non_empty :
        \/ non_empty = <<>>
        \/ RatioExceeds(ArtifactCount(non_empty), Len(non_empty)))

\* lines 227-241: the loop over the columns
RECURSIVE ArtifactLoop(_, _, _)
ArtifactLoop(tbl, col_idx, max_cols) ==
    IF col_idx >= max_cols THEN col_idx
    ELSE IF IsArtifactColumn(tbl, col_idx)
         THEN ArtifactLoop(tbl, col_idx + 1, max_cols)
         ELSE col_idx

\* lines 216-241
detect_artifact_columns(tbl) ==
    IF tbl = <<>> THEN 0 ELSE ArtifactLoop(tbl, 0, MaxCols(tbl))

\* Columns of up to MaxColCells cells, by the number of cells of each kind;
\* columns of up to MaxEnumCells cells, in every order.
MaxColCells == 10
MaxEnumCells == 3

RgbCell == <<"1", "2", "8", ",", " ", "6", "4", ",", " ", "3", "2">>
BigCell == <<"3", "0", "0">>
BlankCell == <<" ">>

\* one, two and four small integers
SmallCell == <<"1", "2">>
PairCell == <<"1", "2", " ", "5">>
QuadCell == <<"1", ",", "2", ",", "3", ",", "4">>

ArtCells == {None, BlankCell, RgbCell, BigCell, LabelSample, SmallCell, PairCell, QuadCell}

Repeat(c, n) == [i \in 1..n |-> c]

CountedColumns ==
    {Repeat(RgbCell, a) \o Repeat(LabelSample, b) \o Repeat(None, c) :
        <<a, b, c>> \in {x \in (0..MaxColCells) \X (0..MaxColCells) \X (0..MaxColCells) :
                            x[1] + x[2] + x[3] \in 1..MaxColCells}}

ArtColumns == CountedColumns \cup StringsUpTo(MaxEnumCells, ArtCells)

\* The table with first column col and a second column of second cells; with
\* ragged, the last row has the first column only.
TwoColumnTable(col, second, ragged) ==
    [i \in 1..Len(col) |->
        IF ragged /\ i = Len(col) THEN <<col[i]>> ELSE <<col[i], second>>]

ArtTables ==
    {TwoColumnTable(col, second, ragged) :
        col \in ArtColumns, second \in {LabelSample, RgbCell, None}, ragged \in BOOLEAN}

ArtInit ==
    /\ table \in ArtTables
    /\ strip_count = 0
    /\ apc = "call"

DetectArtifacts ==
    /\ apc = "call"
    /\ strip_count' = detect_artifact_columns(table)
    /\ apc' = "done"
    /\ UNCHANGED table

ArtNext == DetectArtifacts /\ UNCHANGED <<fmt, normVars, detVars, valVars, mainVars, cleanVars, footVars, selVars, wordVars, precVars, procVars, todoVars, ralphVars>>

InitArtifact == ArtInit /\ fmt = "en" /\ NormIdle /\ DetIdle /\ ValIdle /\ MainIdle /\ CleanIdle /\ FootIdle /\ SelIdle /\ WordIdle /\ PrecIdle /\ ProcIdle /\ TodoIdle /\ RalphIdle

SpecArtifact == InitArtifact /\ [][ArtNext]_vars

\* The non-empty cells of a column of the table and those that are artifacts
NonEmptyIn(col_idx) == Len(NonEmptyValues(table, col_idx))
ArtifactsIn(col_idx) == ArtifactCount(NonEmptyValues(table, col_idx))

\* Every column before col_idx was stripped
IsLeading(col_idx) == col_idx <= strip_count

\* C10 as stated: a leading column is stripped when at least 70% of its
\* non-empty cells are artifacts, the case of exactly 70% included.
C10_StrippedAtSeventyPercent ==
    (apc = "done" /\ table # <<>>) =>
        \A col_idx \in 0..(MaxCols(table) - 1) :
            (/\ IsLeading(col_idx)
             /\ NonEmptyIn(col_idx) >= 1
             /\ 10 * ArtifactsIn(col_idx) >= 7 * NonEmptyIn(col_idx))
                => strip_count > col_idx

\* C10 amended: a leading column with a non-empty cell is stripped exactly
\* when strictly more than 70% of its non-empty cells are artifacts; at
\* exactly 70%, and below, it is kept.
C10_StrippedAboveSeventyPercent ==
    (apc = "done" /\ table # <<>>) =>
        \A col_idx \in 0..(MaxCols(table) - 1) :
            (IsLeading(col_idx) /\ NonEmptyIn(col_idx) >= 1) =>
                (strip_count > col_idx
                    <=> 10 * ArtifactsIn(col_idx) > 7 * NonEmptyIn(col_idx))

\* 7 artifacts among 10 non-empty cells: the column is kept
C10_Witness ==
    /\ apc = "done"
    /\ table # <<>>
    /\ NonEmptyIn(0) = 10
    /\ ArtifactsIn(0) = 7
    /\ strip_count = 0

(***************************************************************************)
(* Artifact Cleaner: continuation columns, empty rows                      *)
(***************************************************************************)
LowerLetters ==
    {"a", "b", "c", "d", "e", "f", "g", "h", "i", "j", "k", "l", "m",
     "n", "o", "p", "q", "r", "s", "t", "u", "v", "w", "x", "y", "z"}

UpperLetters ==
    {"A", "B", "C", "D", "E", "F", "G", "H", "I", "J", "K", "L", "M",
     "N", "O", "P", "Q", "R", "S", "T", "U", "V", "W", "X", "Y", "Z"}

\* FINANCIAL_CELL.match(s): ^[\s($]*\d[\d,.\s]*[)%]?$
FINANCIAL_CELL_match(s) ==
    \E i \in 1..Len(s) :
        /\ \A k \in 1..(i - 1) : s[k] \in Whitespace \cup {"(", "$"}
        /\ s[i] \in Digits
        /\ \E j \in i..Len(s) :
            /\ \A k \in (i + 1)..j : s[k] \in ParenBodyChars
            /\ \/ AtDollar(s, j + 1)
               \/ /\ j + 1 <= Len(s)
                  /\ s[j + 1] \in {")", "%"}
                  /\ AtDollar(s, j + 2)

\* lines 244-251
is_financial_cell(cell) ==
    IF cell = None THEN FALSE
    ELSE LET s == Strip(cell)
         IN  IF s = <<>> THEN FALSE ELSE FINANCIAL_CELL_match(s)

\* lines 266-269: the stripped text of a column, "" for a missing cell
ColumnTexts(tbl, col_idx) ==
    [i \in 1..Len(tbl) |->
        IF col_idx < Len(tbl[i]) /\ tbl[i][col_idx + 1] # None
        THEN Strip(tbl[i][col_idx + 1])
        ELSE <<>>]

\* Columns that are exactly half empty count as mostly empty
MostlyEmpty_orHalf(n_non_empty, n_values) == 2 * n_non_empty <= n_values

\* line 276-278: 1 - len(non_empty) / len(col_values) > 0.5
MostlyEmpty(n_non_empty, n_values) == 2 * n_non_empty < n_values

\* lines 265-279: whether column col_idx (from 0) is a continuation column
IsContinuationColumn(tbl, col_idx) ==
    Local(ColumnTexts(tbl, col_idx), LAMBDA col_values :
    Local(SelectSeq(col_values, LAMBDA v : v # <<>>), LAMBDA non_empty :
        /\ non_empty # <<>>
        /\ Len(SelectSeq(non_empty, is_financial_cell)) = 0
        /\ MostlyEmpty(Len(non_empty), Len(col_values))))

\* lines 254-281
detect_continuation_columns(tbl) ==
    IF tbl = <<>> THEN {}
    ELSE {col_idx \in 1..(MaxCols(tbl) - 1) : IsContinuationColumn(tbl, col_idx)}

\* A continuation column goes into the column just before it
MergeTarget_previous(col_idx, merge_cols) == col_idx - 1

\* lines 295-297: the column a continuation column is merged into
MergeTarget(col_idx, merge_cols) ==
    LET stops == {x \in 0..(col_idx - 1) : x \notin merge_cols \/ x = 0}
    IN  SetMax(stops)

\* str(x).strip() if x is not None else ""
TextOf(x) == IF x = None THEN <<>> ELSE Strip(x)

\* lines 299-309: one continuation column merged into a row (0-based columns)
MergeOne(new_row, col_idx, merge_cols) ==
    IF col_idx >= Len(new_row) \/ col_idx < 1 THEN new_row
    ELSE
    LET target == MergeTarget(col_idx, merge_cols)
        curr == TextOf(new_row[target + 1])
        addition == TextOf(new_row[col_idx + 1])
        joined ==
            IF curr # <<>> /\ addition # <<>>
            THEN IF /\ curr[Len(curr)] \in LowerLetters \cup UpperLetters
                    /\ addition[1] \in LowerLetters
                 THEN curr \o addition
                 ELSE curr \o <<" ">> \o addition
            ELSE IF addition # <<>> THEN addition
            ELSE new_row[target + 1]
    IN  [new_row EXCEPT ![target + 1] = joined, ![col_idx + 1] = <<>>]

\* lines 292-309: the columns of merge_cols from col_idx on, in order
RECURSIVE MergeFrom(_, _, _, _)
MergeFrom(new_row, col_idx, max_col, merge_cols) ==
    IF col_idx > max_col THEN new_row
    ELSE IF col_idx \in merge_cols
         THEN Local(MergeOne(new_row, col_idx, merge_cols), LAMBDA r :
                  MergeFrom(r, col_idx + 1, max_col, merge_cols))
         ELSE MergeFrom(new_row, col_idx + 1, max_col, merge_cols)

\* lines 311-314
DropColumns(new_row, merge_cols) ==
    LET keep == {i \in 1..Len(new_row) : (i - 1) \notin merge_cols}
        Nth(k) == CHOOSE i \in keep : Cardinality({j \in keep : j < i}) = k - 1
    IN  [k \in 1..Cardinality(keep) |-> new_row[Nth(k)]]

\* lines 284-317
merge_columns(tbl, merge_cols) ==
    IF merge_cols = {} THEN tbl
    ELSE [i \in 1..Len(tbl) |->
            Local(MergeFrom(tbl[i], 1, SetMax(merge_cols), merge_cols), LAMBDA r :
                DropColumns(r, merge_cols))]

\* A row is kept when it has a cell that is not None
RowHasText_notNone(row) == \E i \in 1..Len(row) : row[i] # None

\* line 335
RowHasText(row) == \E i \in 1..Len(row) : IsNonBlank(row[i])

\* Only the first artifact column is removed
StripColumns_firstOnly(tbl, n) == [i \in 1..Len(tbl) |-> Drop(tbl[i], 1)]

\* line 327: row[strip_count:] for every row
StripColumns(tbl, n) == [i \in 1..Len(tbl) |-> Drop(tbl[i], n)]

\* lines 320-339
clean_presentation_artifacts(tbl) ==
    IF tbl = <<>> THEN tbl
    ELSE
    Local(StripColumns(tbl, detect_artifact_columns(tbl)), LAMBDA stripped :
    Local(detect_continuation_columns(stripped), LAMBDA merge_cols :
    Local(merge_columns(stripped, merge_cols), LAMBDA merged :
        SelectSeq(merged, RowHasText))))

(***************************************************************************)
(* Footnote/Row Classifier, label forward-fill, process_table              *)
(***************************************************************************)
\* The symbols of FOOTNOTE_PATTERN: * and U+2020, U+2021, U+00A7, U+00B9,
\* U+00B2, U+00B3, U+2074, U+2075
FootnoteSymbols ==
    {"*", "u2020", "u2021", "u00a7", "u00b9", "u00b2", "u00b3", "u2074", "u2075"}

\* U+25AA, U+2022, U+25CF
BulletGlyphs == {"u25aa", "u2022", "u25cf"}

\* line 351
FootnoteLength == 200

\* FOOTNOTE_PATTERN.match(s):
\* ^\s*(?:\d{1,2}\s*[\)\.]|[*...]|\(\d\))\s*
FOOTNOTE_PATTERN_match(s) ==
    LET u == LStrip(s)
        AfterDigits(k) ==
            LET v == LStrip(Drop(u, k)) IN Len(v) >= 1 /\ v[1] \in {")", "."}
    IN  \/ Len(u) >= 1 /\ u[1] \in Digits /\ AfterDigits(1)
        \/ Len(u) >= 2 /\ u[1] \in Digits /\ u[2] \in Digits /\ AfterDigits(2)
        \/ Len(u) >= 1 /\ u[1] \in FootnoteSymbols
        \/ Len(u) >= 3 /\ u[1] = "(" /\ u[2] \in Digits /\ u[3] = ")"

\* The text of the first cell only
JoinWithSpace_firstOnly(texts) == IF texts = <<>> THEN <<>> ELSE texts[1]

\* " ".join(cells)
RECURSIVE JoinWithSpace(_)
JoinWithSpace(texts) ==
    IF texts = <<>> THEN <<>>
    ELSE IF Len(texts) = 1 THEN texts[1]
    ELSE texts[1] \o <<" ">> \o JoinWithSpace(Tail(texts))

\* A row with no text is not a footnote
is_footnote_row_emptyIsData(row) ==
    /\ SelectSeq(row, IsNonBlank) # <<>>
    /\ \/ FOOTNOTE_PATTERN_match(SelectSeq(row, IsNonBlank)[1])
       \/ Len(JoinWithSpace(SelectSeq(row, IsNonBlank))) > FootnoteLength
       \/ \E i \in 1..Len(row) :
            row[i] # None /\ \E k \in 1..Len(row[i]) : row[i][k] \in BulletGlyphs

\* lines 342-355
is_footnote_row(row) ==
    Local(SelectSeq(row, IsNonBlank), LAMBDA text_cells :
        IF text_cells = <<>> THEN TRUE
        ELSE IF FOOTNOTE_PATTERN_match(text_cells[1]) THEN TRUE
        ELSE IF Len(JoinWithSpace(text_cells)) > FootnoteLength THEN TRUE
        ELSE \E i \in 1..Len(row) :
                /\ row[i] # None
                /\ \E k \in 1..Len(row[i]) : row[i][k] \in BulletGlyphs)

\* lines 363-368: the loop over the rows, which assigns row[0]
RECURSIVE FillLoop(_, _, _)
FillLoop(tbl, last_label, acc) ==
    IF tbl = <<>> THEN acc
    ELSE
    Local(Head(tbl), LAMBDA row :
        IF row # <<>> /\ IsNonBlank(row[1])
        THEN FillLoop(Tail(tbl), row[1], Append(acc, row))
        ELSE IF row # <<>> /\ last_label # None
             THEN FillLoop(Tail(tbl), last_label,
                           Append(acc, [row EXCEPT ![1] = last_label]))
             ELSE FillLoop(Tail(tbl), last_label, Append(acc, row)))

\* lines 358-370: the rows after the call
forward_fill_labels(tbl) == FillLoop(tbl, None, <<>>)

\* lines 448-454: the rows that are not footnotes
DataRows(filled) == SelectSeq(filled, LAMBDA row : ~is_footnote_row(row))

\* lines 449-452: the text of the footnote rows that have text
Footnotes(filled) ==
    LET notes == SelectSeq(filled, LAMBDA row : is_footnote_row(row) /\ RowHasText(row))
    IN  [i \in 1..Len(notes) |-> JoinWithSpace(SelectSeq(notes[i], IsNonBlank))]

\* lines 325-337: clean_presentation_artifacts returns the row lists of its
\* argument themselves, not copies, when no column is stripped or merged
CleanSharesRows(tbl) ==
    /\ tbl # <<>>
    /\ detect_artifact_columns(tbl) = 0
    /\ detect_continuation_columns(tbl) = {}

\* The raw table after process_table: forward_fill_labels assigns row[0] of
\* the rows clean_presentation_artifacts returned, which are rows of raw
\* itself when CleanSharesRows
RawAfterProcess(raw_table, filled) ==
    IF ~CleanSharesRows(raw_table) THEN raw_table
    ELSE
    LET kept == {i \in 1..Len(raw_table) : RowHasText(raw_table[i])}
    IN  [i \in 1..Len(raw_table) |->
            IF i \in kept
            THEN filled[Cardinality({j \in kept : j <= i})]
            ELSE raw_table[i]]

\* lines 440-456: [data_rows, footnotes] and the raw table after the call
process_table(raw_table, f) ==
    Local(forward_fill_labels(clean_presentation_artifacts(raw_table)), LAMBDA filled :
        [data_rows |-> DataRows(filled),
         footnotes |-> Footnotes(filled),
         raw |-> RawAfterProcess(raw_table, filled)])

(***************************************************************************)
(* main (lines 511-612).  The page loop, the format detection and the      *)
(* table loop; one step per page and per table.  detect_scale and          *)
(* detect_currency read the page text only and are left out.               *)
(***************************************************************************)
RECURSIVE Flatten(_)
Flatten(seqs) == IF seqs = <<>> THEN <<>> ELSE Head(seqs) \o Flatten(Tail(seqs))

\* lines 533-535: the cells one raw table adds to all_cells
EvidenceCells(raw_table) ==
    SelectSeq(Flatten(clean_presentation_artifacts(raw_table)), LAMBDA c : c # None)

\* lines 531-536: the cells the tables of one page add to all_cells
PageEvidence(tables) == Flatten([i \in 1..Len(tables) |-> EvidenceCells(tables[i])])

\* lines 579-586: the row written for a data row
CsvRow(row) == [j \in 1..Len(row) |-> IF row[j] = None THEN <<>> ELSE Strip(row[j])]

\* Only the rows that validated are written
CsvRows_passOnly(data_rows, vals) ==
    LET keep == SelectSeq([i \in 1..Len(data_rows) |-> i],
                          LAMBDA i : vals[i].status = "pass")
    IN  [k \in 1..Len(keep) |-> CsvRow(data_rows[keep[k]])]

\* lines 577-586: the rows written for a table whose validations are vals
CsvRows(data_rows, vals) == [i \in 1..Len(data_rows) |-> CsvRow(data_rows[i])]

\* Each table validated under the format of its own cells
TableFormat_ofTable(raw_table) == detect_number_format(EvidenceCells(raw_table))

\* lines 567, 572: the fmt passed for a table, the local fmt of main
TableFormat(raw_table) == main_fmt

\* lines 593-607
TableMeta(page_num, table_idx, data_rows, footnotes, vals) ==
    [page |-> page_num,
     table_index |-> table_idx,
     rows |-> Len(data_rows),
     columns |-> SetMax({Len(data_rows[i]) : i \in 1..Len(data_rows)}),
     footnotes |-> footnotes,
     rows_checked |-> Len(vals),
     rows_pass |-> Len(SelectSeq(vals, LAMBDA v : v.status = "pass")),
     rows_mismatch |-> Len(SelectSeq(vals, LAMBDA v : v.status = "mismatch")),
     details |-> SelectSeq(vals, LAMBDA v : v.status = "mismatch")]

MaxPages == 2

StarNote == <<"*", " ", "n", "o", "t", "e">>

TblArith == <<PassRow, MismatchRow, <<LabelSample, N50>>>>
TblEn == <<<<LabelSample, EnFull, EnFull2>>>>
TblEs == <<<<LabelSample, EsFull, EsFull2>>, <<None, EsBare, None>>>>
TblArtifact == <<<<RgbCell, LabelSample, N100>>, <<RgbCell, None, N50>>>>
TblNote == <<<<StarNote, None>>, <<LabelSample, N100>>>>
TblBlank == <<<<None, BlankCell>>>>

PageSamples ==
    {<<>>, <<TblArith>>, <<TblEn>>, <<TblEs, TblArith>>, <<TblArtifact, TblNote>>, <<TblBlank>>}

\* parse_page_range returns a sorted list without duplicates
SortedSeqOf(S) ==
    [k \in 1..Cardinality(S) |-> CHOOSE x \in S : Cardinality({y \in S : y < x}) = k - 1]

MainInit ==
    /\ pdf_pages \in UNION {[1..n -> PageSamples] : n \in 1..MaxPages}
    /\ pages \in {SortedSeqOf(S) : S \in SUBSET (1..(MaxPages + 1)) \ {{}}}
    /\ mpc = "pages"
    /\ page_pos = 1
    /\ all_cells = <<>>
    /\ page_tables = <<>>
    /\ main_fmt = "unset"
    /\ table_pos = <<1, 1>>
    /\ csv_files = <<>>
    /\ metadata_tables = <<>>
    /\ fmt_passed = <<>>
    /\ detect_calls = 0

\* lines 516-538: one iteration of the page loop
MainPage ==
    /\ mpc = "pages"
    /\ page_pos <= Len(pages)
    /\ \E page_num \in {pages[page_pos]} :
        IF page_num < 1 \/ page_num > Len(pdf_pages)
        THEN UNCHANGED <<all_cells, page_tables>>
        ELSE IF pdf_pages[page_num] = <<>>
        THEN UNCHANGED <<all_cells, page_tables>>
        ELSE /\ all_cells' = all_cells \o PageEvidence(pdf_pages[page_num])
             /\ page_tables' = Append(page_tables,
                    [page |-> page_num, tables |-> pdf_pages[page_num]])
    /\ page_pos' = page_pos + 1
    /\ UNCHANGED <<pdf_pages, pages, mpc, main_fmt, table_pos, csv_files,
                   metadata_tables, fmt_passed, detect_calls>>

\* line 540, after the page loop
MainDetect ==
    /\ mpc = "pages"
    /\ page_pos > Len(pages)
    /\ main_fmt' = detect_number_format(all_cells)
    /\ detect_calls' = detect_calls + 1
    /\ mpc' = "tables"
    /\ UNCHANGED <<pdf_pages, pages, page_pos, all_cells, page_tables, table_pos,
                   csv_files, metadata_tables, fmt_passed>>

\* The position after table_pos in the loops of lines 562-563
NextTablePos ==
    IF table_pos[2] < Len(page_tables[table_pos[1]].tables)
    THEN <<table_pos[1], table_pos[2] + 1>>
    ELSE <<table_pos[1] + 1, 1>>

\* lines 563-610: one iteration of the table loop
MainTable ==
    /\ mpc = "tables"
    /\ table_pos[1] <= Len(page_tables)
    /\ \E raw_table \in {page_tables[table_pos[1]].tables[table_pos[2]]} :
       \E f \in {TableFormat(raw_table)} :
       \E p \in {process_table(raw_table, f)} :
        /\ page_tables' =
             [page_tables EXCEPT ![table_pos[1]].tables[table_pos[2]] = p.raw]
        /\ IF p.data_rows = <<>>
           THEN /\ fmt_passed' = Append(fmt_passed, f)
                /\ UNCHANGED <<csv_files, metadata_tables, mpc>>
           ELSE /\ fmt_passed' = fmt_passed \o <<f, f>>
                /\ IF ValidateExc(p.data_rows, f) # "none"
                   THEN /\ mpc' = "raised"
                        /\ UNCHANGED <<csv_files, metadata_tables>>
                   ELSE \E vals \in {validate_row_totals(p.data_rows, f)} :
                        /\ csv_files' = Append(csv_files,
                             [page |-> page_tables[table_pos[1]].page,
                              table_index |-> table_pos[2],
                              rows |-> CsvRows(p.data_rows, vals)])
                        /\ metadata_tables' = Append(metadata_tables,
                             TableMeta(page_tables[table_pos[1]].page, table_pos[2],
                                       p.data_rows, p.footnotes, vals))
                        /\ UNCHANGED mpc
    /\ table_pos' = NextTablePos
    /\ UNCHANGED <<pdf_pages, pages, page_pos, all_cells, main_fmt, detect_calls>>

\* lines 612-622, after the table loop
MainFinish ==
    /\ mpc = "tables"
    /\ table_pos[1] > Len(page_tables)
    /\ mpc' = "done"
    /\ UNCHANGED <<pdf_pages, pages, page_pos, all_cells, page_tables, main_fmt,
                   table_pos, csv_files, metadata_tables, fmt_passed, detect_calls>>

MainNext ==
    \/ MainPage /\ UNCHANGED <<fmt, normVars, detVars, valVars, artVars, cleanVars, footVars, selVars, wordVars, precVars, procVars, todoVars, ralphVars>>
    \/ MainDetect /\ UNCHANGED <<fmt, normVars, detVars, valVars, artVars, cleanVars, footVars, selVars, wordVars, precVars, procVars, todoVars, ralphVars>>
    \/ MainTable /\ UNCHANGED <<fmt, normVars, detVars, valVars, artVars, cleanVars, footVars, selVars, wordVars, precVars, procVars, todoVars, ralphVars>>
    \/ MainFinish /\ UNCHANGED <<fmt, normVars, detVars, valVars, artVars, cleanVars, footVars, selVars, wordVars, precVars, procVars, todoVars, ralphVars>>

InitMain == MainInit /\ fmt = "en" /\ NormIdle /\ DetIdle /\ ValIdle /\ ArtIdle /\ CleanIdle /\ FootIdle /\ SelIdle /\ WordIdle /\ PrecIdle /\ ProcIdle /\ TodoIdle /\ RalphIdle

SpecMain == InitMain /\ [][MainNext]_vars

\* The evidence of every targeted page of the document, in page order
ExpectedPool ==
    Flatten([k \in 1..Len(pages) |->
        IF pages[k] < 1 \/ pages[k] > Len(pdf_pages)
        THEN <<>>
        ELSE PageEvidence(pdf_pages[pages[k]])])

C7_State ==
    /\ detect_calls <= 1
    /\ detect_calls = 0 => (main_fmt = "unset" /\ fmt_passed = <<>>)
    /\ detect_calls = 1 =>
        /\ page_pos = Len(pages) + 1
        /\ all_cells = ExpectedPool
        /\ main_fmt = detect_number_format(ExpectedPool)
        /\ \A i \in 1..Len(fmt_passed) : fmt_passed[i] = main_fmt

C7_Step == detect_calls = 1 => (detect_calls' = 1 /\ main_fmt' = main_fmt)

\* C7: in a run of main the format is detected at most once, only after the
\* cells of every targeted page are in all_cells and before any call that
\* takes the format; the detected value is the detector's answer for that
\* whole pool, every process_table / validate_row_totals call is passed that
\* value, and it never changes afterwards.
C7_DetectOnceThenUse == [](C7_State) /\ [][C7_Step]_vars

C7_Witness ==
    /\ mpc = "done"
    /\ Len(page_tables) = 2
    /\ main_fmt = "es"
    /\ detect_number_format(PageEvidence(pdf_pages[1])) = "en"
    /\ Len(fmt_passed) >= 4

\* The data rows main gets for the table written as file k
DataRowsOf(k) ==
    process_table(pdf_pages[csv_files[k].page][csv_files[k].table_index],
                  main_fmt).data_rows

\* C9: for every table written, validate_row_totals gives one result per
\* data row, in row order, and the rows written are the data rows, each
\* serialised the same way (None as "", text stripped), whatever the
\* statuses are; the metadata counts every data row.
C9_MismatchRowsKept ==
    /\ Len(metadata_tables) = Len(csv_files)
    /\ \A k \in 1..Len(csv_files) :
        \E dr \in {DataRowsOf(k)} :
        \E vals \in {validate_row_totals(dr, main_fmt)} :
            /\ Len(vals) = Len(dr)
            /\ \A i \in 1..Len(dr) : vals[i].row = i - 1
            /\ Len(csv_files[k].rows) = Len(dr)
            /\ \A i \in 1..Len(dr) : csv_files[k].rows[i] = CsvRow(dr[i])
            /\ metadata_tables[k].rows = Len(dr)
            /\ metadata_tables[k].rows_checked = Len(dr)
            /\ metadata_tables[k].details =
                 SelectSeq(vals, LAMBDA v : v.status = "mismatch")

C9_Witness ==
    /\ mpc = "done"
    /\ \E k \in 1..Len(csv_files) :
        /\ Len(csv_files[k].rows) = 3
        /\ csv_files[k].rows[2] = MismatchRow
        /\ metadata_tables[k].rows_pass = 1
        /\ metadata_tables[k].rows_mismatch = 1
        /\ metadata_tables[k].rows_checked = 3

(***************************************************************************)
(* clean_presentation_artifacts (lines 320-339), stage by stage            *)
(***************************************************************************)
MaxCleanCols == 3

WrapLower == <<"n", "e", "t">>
WrapUpper == <<"N", "e", "t">>

\* Columns of four cells
ColRgb == <<RgbCell, RgbCell, RgbCell, RgbCell>>
ColRgbGap == <<RgbCell, None, RgbCell, BlankCell>>
ColRgbHalf == <<RgbCell, RgbCell, LabelSample, LabelSample>>
ColEmpty == <<None, BlankCell, None, None>>
ColLabel == <<LabelSample, LabelSample, LabelSample, LabelSample>>
ColLabelGap == <<LabelSample, None, LabelSample, BlankCell>>
ColWrap == <<None, WrapLower, None, None>>
ColWrapUpper == <<None, WrapUpper, None, BlankCell>>
ColWrapHalf == <<WrapLower, None, WrapUpper, None>>
ColNumber == <<N100, N50, N150, N140>>
ColNumberGap == <<None, None, None, N100>>

CleanColumns ==
    {ColRgb, ColRgbGap, ColRgbHalf, ColEmpty, ColLabel, ColLabelGap, ColWrap,
     ColWrapUpper, ColWrapHalf, ColNumber, ColNumberGap}

\* The table of the given columns; with ragged, the last row lacks its last cell
TableOfColumns(cols, ragged) ==
    [i \in 1..Len(ColRgb) |->
        [j \in 1..(IF ragged /\ i = Len(ColRgb) THEN Len(cols) - 1 ELSE Len(cols)) |->
            cols[j][i]]]

CleanTables ==
    {<<>>} \cup
    {TableOfColumns(cols, ragged) :
        cols \in UNION {[1..n -> CleanColumns] : n \in 1..MaxCleanCols},
        ragged \in BOOLEAN}

CleanInit ==
    /\ c_table \in CleanTables
    /\ c_strip_count = 0
    /\ c_stripped = <<>>
    /\ c_merge_cols = {}
    /\ c_merged = <<>>
    /\ c_cleaned = <<>>
    /\ cpc = "call"

\* lines 322-323: an empty table is returned as it is
CleanEmpty ==
    /\ cpc = "call"
    /\ c_table = <<>>
    /\ c_cleaned' = c_table
    /\ cpc' = "done"
    /\ UNCHANGED <<c_table, c_strip_count, c_stripped, c_merge_cols, c_merged>>

\* lines 325-327
CleanStrip ==
    /\ cpc = "call"
    /\ c_table # <<>>
    /\ \E n \in {detect_artifact_columns(c_table)} :
        /\ c_strip_count' = n
        /\ c_stripped' = IF n > 0 THEN StripColumns(c_table, n) ELSE c_table
    /\ cpc' = "stripped"
    /\ UNCHANGED <<c_table, c_merge_cols, c_merged, c_cleaned>>

\* line 329
CleanDetect ==
    /\ cpc = "stripped"
    /\ c_merge_cols' = detect_continuation_columns(c_stripped)
    /\ cpc' = "detected"
    /\ UNCHANGED <<c_table, c_strip_count, c_stripped, c_merged, c_cleaned>>

\* lines 330-331
CleanMerge ==
    /\ cpc = "detected"
    /\ c_merged' = IF c_merge_cols # {}
                   THEN merge_columns(c_stripped, c_merge_cols)
                   ELSE c_stripped
    /\ cpc' = "merged"
    /\ UNCHANGED <<c_table, c_strip_count, c_stripped, c_merge_cols, c_cleaned>>

\* lines 333-339
CleanRows ==
    /\ cpc = "merged"
    /\ c_cleaned' = SelectSeq(c_merged, RowHasText)
    /\ cpc' = "done"
    /\ UNCHANGED <<c_table, c_strip_count, c_stripped, c_merge_cols, c_merged>>

CleanNext ==
    \/ CleanEmpty /\ UNCHANGED <<fmt, normVars, detVars, valVars, artVars, mainVars, footVars, selVars, wordVars, precVars, procVars, todoVars, ralphVars>>
    \/ CleanStrip /\ UNCHANGED <<fmt, normVars, detVars, valVars, artVars, mainVars, footVars, selVars, wordVars, precVars, procVars, todoVars, ralphVars>>
    \/ CleanDetect /\ UNCHANGED <<fmt, normVars, detVars, valVars, artVars, mainVars, footVars, selVars, wordVars, precVars, procVars, todoVars, ralphVars>>
    \/ CleanMerge /\ UNCHANGED <<fmt, normVars, detVars, valVars, artVars, mainVars, footVars, selVars, wordVars, precVars, procVars, todoVars, ralphVars>>
    \/ CleanRows /\ UNCHANGED <<fmt, normVars, detVars, valVars, artVars, mainVars, footVars, selVars, wordVars, precVars, procVars, todoVars, ralphVars>>

InitClean ==
    CleanInit /\ fmt = "en" /\ NormIdle /\ DetIdle /\ ValIdle /\ ArtIdle /\ MainIdle /\ FootIdle /\ SelIdle /\ WordIdle /\ PrecIdle /\ ProcIdle /\ TodoIdle /\ RalphIdle

SpecClean == InitClean /\ [][CleanNext]_vars

\* The staged run ends with what clean_presentation_artifacts returns
CleanStagesAgree == cpc = "done" => c_cleaned = clean_presentation_artifacts(c_table)

\* The cells of column col_idx (from 0) of c_table that are not None or blank
CleanNonEmpty(col_idx) == NonEmptyValues(c_table, col_idx)

\* Column col_idx of c_table has no text, or more than 70% of its text
\* cells are artifacts
PassesRatio(col_idx) ==
    \/ CleanNonEmpty(col_idx) = <<>>
    \/ 10 * Len(SelectSeq(CleanNonEmpty(col_idx), is_rgb_artifact))
           > 7 * Len(CleanNonEmpty(col_idx))

\* Every row of c_table has columns 0..k, the cells of the first k columns
\* are 0-255 triples and column k holds labels
TriplesThenLabels(k) ==
    /\ c_table # <<>>
    /\ \A i \in 1..Len(c_table) :
        /\ Len(c_table[i]) > k
        /\ \A j \in 1..k : c_table[i][j] = RgbCell
        /\ c_table[i][k + 1] = LabelSample

\* C11: the columns stripped are the leading columns up to, and not
\* including, the first one that fails the ratio; every row keeps its cells
\* from that column on, unchanged and in order; when the first k columns hold
\* only 0-255 triples and column k holds labels, exactly k columns go.
C11_LeadingRunStripped ==
    (cpc \in {"stripped", "detected", "merged", "done"} /\ c_table # <<>>) =>
        /\ c_strip_count \in 0..MaxCols(c_table)
        /\ \A col_idx \in 0..(c_strip_count - 1) : PassesRatio(col_idx)
        /\ c_strip_count < MaxCols(c_table) => ~PassesRatio(c_strip_count)
        /\ Len(c_stripped) = Len(c_table)
        /\ \A i \in 1..Len(c_table) :
            /\ Len(c_stripped[i]) = Max2(Len(c_table[i]) - c_strip_count, 0)
            /\ \A j \in 1..Len(c_stripped[i]) :
                c_stripped[i][j] = c_table[i][j + c_strip_count]
        /\ \A k \in 0..MaxCols(c_table) : TriplesThenLabels(k) => c_strip_count = k

C11_Witness ==
    /\ cpc = "stripped"
    /\ TriplesThenLabels(2)
    /\ c_strip_count = 2
    /\ c_stripped = <<<<LabelSample>>, <<LabelSample>>, <<LabelSample>>, <<LabelSample>>>>

\* The cell of row i in column col_idx (from 0) of the stripped table, None
\* where the row is too short
StrippedCell(i, col_idx) ==
    IF col_idx < Len(c_stripped[i]) THEN c_stripped[i][col_idx + 1] ELSE None

\* The rows whose cell in the column is empty, and those whose cell is
\* financial-looking
EmptyRowsOf(col_idx) ==
    {i \in 1..Len(c_stripped) : ~IsNonBlank(StrippedCell(i, col_idx))}
FinancialRowsOf(col_idx) ==
    {i \in 1..Len(c_stripped) : is_financial_cell(StrippedCell(i, col_idx))}

NoFinancialMostlyEmpty(col_idx) ==
    /\ FinancialRowsOf(col_idx) = {}
    /\ 2 * Cardinality(EmptyRowsOf(col_idx)) > Len(c_stripped)

\* Every merged column is dropped from every row that has it
MergedColumnsDropped ==
    cpc \in {"merged", "done"} =>
        /\ Len(c_merged) = Len(c_stripped)
        /\ \A i \in 1..Len(c_stripped) :
            Len(c_merged[i]) = Len(c_stripped[i])
                - Cardinality({col \in c_merge_cols : col < Len(c_stripped[i])})

\* C12 as stated: the continuation columns are exactly the columns with no
\* financial-looking cell and more than 50% empty cells.
C12_EveryMostlyEmptyColumnMerged ==
    (cpc \in {"detected", "merged", "done"} /\ c_stripped # <<>>) =>
        /\ \A col_idx \in 0..(MaxCols(c_stripped) - 1) :
            col_idx \in c_merge_cols <=> NoFinancialMostlyEmpty(col_idx)
        /\ MergedColumnsDropped

\* C12 amended: the continuation columns are exactly the columns, other
\* than the first, that have at least one non-empty cell, no
\* financial-looking cell and more than 50% empty cells; they are dropped,
\* and no column with a financial-looking cell or at most 50% empty cells is.
C12_ContinuationColumns ==
    (cpc \in {"detected", "merged", "done"} /\ c_stripped # <<>>) =>
        /\ c_merge_cols \subseteq 1..(MaxCols(c_stripped) - 1)
        /\ \A col_idx \in 0..(MaxCols(c_stripped) - 1) :
            col_idx \in c_merge_cols <=>
                /\ col_idx >= 1
                /\ Cardinality(EmptyRowsOf(col_idx)) < Len(c_stripped)
                /\ NoFinancialMostlyEmpty(col_idx)
        /\ MergedColumnsDropped

\* A first column and an empty column that are kept next to a merged one
C12_Witness ==
    /\ cpc = "merged"
    /\ c_merge_cols = {2}
    /\ NoFinancialMostlyEmpty(0)
    /\ NoFinancialMostlyEmpty(1)
    /\ Cardinality(EmptyRowsOf(1)) = Len(c_stripped)
    /\ \A i \in 1..Len(c_merged) : Len(c_merged[i]) = 2

\* The nearest column before col_idx that is not being merged
NearestKept(col_idx) == SetMax({x \in 0..(col_idx - 1) : x \notin c_merge_cols})

\* The merged columns of a row whose text goes to column target, in
\* left-to-right order
SourcesOf(row, target) ==
    SortedSeqOf({col \in c_merge_cols :
                    /\ col < Len(row)
                    /\ NearestKept(col) = target
                    /\ IsNonBlank(row[col + 1])})

\* One text appended to another
JoinText(curr, addition) ==
    IF curr = <<>> THEN addition
    ELSE IF curr[Len(curr)] \in LowerLetters \cup UpperLetters
            /\ addition[1] \in LowerLetters
    THEN curr \o addition
    ELSE curr \o <<" ">> \o addition

RECURSIVE AppendSources(_, _, _)
AppendSources(curr, row, sources) ==
    IF sources = <<>> THEN curr
    ELSE AppendSources(JoinText(curr, Strip(row[Head(sources) + 1])), row, Tail(sources))

\* The cell that column target of a row must hold after merging
ExpectedCell(row, target) ==
    IF SourcesOf(row, target) = <<>> THEN row[target + 1]
    ELSE AppendSources(TextOf(row[target + 1]), row, SourcesOf(row, target))

\* The columns of a row that are not merged, in order
KeptOf(row) == SortedSeqOf({col \in 0..(Len(row) - 1) : col \notin c_merge_cols})

\* C13: after merging, every row holds its columns that are not merged, in
\* order; a column that received nothing is unchanged; a column that is the
\* nearest preceding unmerged column of merged columns with text holds its
\* own text followed by theirs, left to right, each joined with one space,
\* or with none where the text so far ends in a letter and the addition
\* starts with a lowercase letter.
C13_MergeKeepsText ==
    (cpc \in {"merged", "done"} /\ c_merge_cols # {}) =>
        /\ Len(c_merged) = Len(c_stripped)
        /\ \A i \in 1..Len(c_stripped) :
            /\ Len(c_merged[i]) = Len(KeptOf(c_stripped[i]))
            /\ \A k \in 1..Len(c_merged[i]) :
                c_merged[i][k] = ExpectedCell(c_stripped[i], KeptOf(c_stripped[i])[k])

\* Two adjacent merged columns with text in one row, joined mid-word and
\* then with a space
C13_Witness ==
    /\ cpc = "merged"
    /\ c_merge_cols = {1, 2}
    /\ c_stripped[2] = <<LabelSample, WrapLower, WrapUpper>>
    /\ c_merged[2] = <<LabelSample \o WrapLower \o <<" ">> \o WrapUpper>>
    /\ c_merged[1] = <<LabelSample>>

\* The rows of the merged table that have a cell with text
TextRows == {i \in 1..Len(c_merged) : \E j \in 1..Len(c_merged[i]) :
                c_merged[i][j] # None /\ Strip(c_merged[i][j]) # <<>>}

\* C14: every row returned has a non-blank cell, and the rows returned are
\* the rows of the stripped-and-merged table that have one, in their order.
C14_NonBlankRowsKept ==
    cpc = "done" =>
        /\ \A k \in 1..Len(c_cleaned) : \E j \in 1..Len(c_cleaned[k]) :
            c_cleaned[k][j] # None /\ Strip(c_cleaned[k][j]) # <<>>
        /\ Len(c_cleaned) = Cardinality(TextRows)
        /\ \A k \in 1..Len(c_cleaned) : c_cleaned[k] = c_merged[SortedSeqOf(TextRows)[k]]

\* A table that loses a row of None cells and a row with a blank cell
C14_Witness ==
    /\ cpc = "done"
    /\ Len(c_merged) = 4
    /\ c_merged[1] = <<None, None>>
    /\ c_merged[4] = <<BlankCell>>
    /\ Len(c_cleaned) = 1
    /\ c_cleaned[1] = c_merged[2]

(***************************************************************************)
(* is_footnote_row (lines 342-355) as a call                               *)
(***************************************************************************)
MaxFootCells == 3
MaxLongCells == 3

NumberedNote == <<"1", "2", ")", " ", "a">>
ParenNote == <<"(", "1", ")", " ", "a">>
DecimalCell == <<"1", ".", "5">>
BulletCell == <<"a", " ", "u2022">>
HalfText == Repeat("x", FootnoteLength \div 2)
HalfLessText == Repeat("x", FootnoteLength \div 2 - 1)
FullText == Repeat("x", FootnoteLength)
LongText == Repeat("x", FootnoteLength + 1)

\* Rows of up to MaxFootCells short cells, and rows of up to MaxLongCells
\* cells around the length threshold
FootCells ==
    {None, BlankCell, LabelSample, StarNote, NumberedNote, ParenNote, DecimalCell,
     BulletCell}

LongCells == {HalfText, HalfLessText, FullText, LongText, LabelSample, StarNote, None}

FootRows == StringsUpTo(MaxFootCells, FootCells) \cup StringsUpTo(MaxLongCells, LongCells)

FootInit ==
    /\ f_row \in FootRows
    /\ is_footnote = FALSE
    /\ fpc = "call"

ClassifyRow ==
    /\ fpc = "call"
    /\ is_footnote' = is_footnote_row(f_row)
    /\ fpc' = "done"
    /\ UNCHANGED f_row

FootNext ==
    ClassifyRow /\ UNCHANGED <<fmt, normVars, detVars, valVars, artVars, mainVars, cleanVars, selVars, wordVars, precVars, procVars, todoVars, ralphVars>>

InitFoot ==
    FootInit /\ fmt = "en" /\ NormIdle /\ DetIdle /\ ValIdle /\ ArtIdle /\ MainIdle /\ CleanIdle /\ SelIdle /\ WordIdle /\ PrecIdle /\ ProcIdle /\ TodoIdle /\ RalphIdle

SpecFoot == InitFoot /\ [][FootNext]_vars

\* The cells of the row that are not None and not blank, in order
NonBlankCells == SelectSeq(f_row, LAMBDA c : c # None /\ Strip(c) # <<>>)

\* The first non-blank cell starts with a footnote marker
StartsWithMarker == FOOTNOTE_PATTERN_match(NonBlankCells[1])

\* The length of the non-blank cells joined with one space between them
RECURSIVE SumLen(_)
SumLen(texts) == IF texts = <<>> THEN 0 ELSE Len(Head(texts)) + SumLen(Tail(texts))
JoinedLength == SumLen(NonBlankCells) + Len(NonBlankCells) - 1

HasBullet ==
    \E i \in 1..Len(f_row) :
        f_row[i] # None /\ \E k \in 1..Len(f_row[i]) : f_row[i][k] \in BulletGlyphs

\* C15: a row with a non-blank cell is a footnote exactly when its first
\* non-blank cell starts with a marker, or its joined text is longer than
\* 200 characters, or a cell holds a bullet glyph.
C15_FootnoteConditions ==
    (fpc = "done" /\ NonBlankCells # <<>>) =>
        (is_footnote <=> (StartsWithMarker \/ JoinedLength > FootnoteLength \/ HasBullet))

\* Two unmarked cells whose joined text has 201 characters
C15_Witness ==
    /\ fpc = "done"
    /\ f_row = <<HalfText, None, HalfText>>
    /\ ~StartsWithMarker
    /\ ~HasBullet
    /\ JoinedLength = FootnoteLength + 1
    /\ is_footnote

\* C16 as stated: a row that meets none of the three conditions, a fully
\* empty row included, is not a footnote.
C16_EmptyRowIsData ==
    (/\ fpc = "done"
     /\ NonBlankCells # <<>> => ~StartsWithMarker
     /\ JoinedLength <= FootnoteLength
     /\ ~HasBullet)
        => ~is_footnote

\* C16 amended: a row with a non-blank cell that meets none of the three
\* conditions is not a footnote; a row with no non-blank cell is a footnote.
C16_EmptyRowIsFootnote ==
    fpc = "done" =>
        /\ (/\ NonBlankCells # <<>>
            /\ ~StartsWithMarker
            /\ JoinedLength <= FootnoteLength
            /\ ~HasBullet) => ~is_footnote
        /\ NonBlankCells = <<>> => is_footnote

\* A row of a None cell and a blank cell
C16_Witness ==
    /\ fpc = "done"
    /\ f_row = <<None, BlankCell>>
    /\ NonBlankCells = <<>>
    /\ is_footnote

(***************************************************************************)
(* extract_tables_from_page (lines 373-400) and its call in main           *)
(* (lines 522-528).  What a strategy gives on a page is an input: either   *)
(* find_tables raises, or it gives tables, and for each of them            *)
(* extract_table_with_words gives the reconstructed table or raises.       *)
(***************************************************************************)
TABLE_STRATEGIES ==
    <<[vertical_strategy |-> "lines", horizontal_strategy |-> "lines"],
      [vertical_strategy |-> "lines", horizontal_strategy |-> "text"],
      [vertical_strategy |-> "text", horizontal_strategy |-> "text"],
      [vertical_strategy |-> "text", horizontal_strategy |-> "lines"]>>

\* extract_table_with_words raises on this table
RaisingTable == "raises"

\* lines 389-393: the count for the tables of one strategy
NonEmptyCellsOf(tbl) ==
    Len(SelectSeq(Flatten(tbl), IsNonBlank))

RECURSIVE CellCount(_)
CellCount(tables) ==
    IF tables = <<>> THEN 0 ELSE NonEmptyCellsOf(Head(tables)) + CellCount(Tail(tables))

\* lines 388-393 raise for this outcome
StrategyRaises(outcome) ==
    \/ outcome.find_raises
    \/ \E i \in 1..Len(outcome.tables) : outcome.tables[i] = RaisingTable

\* A strategy with the same count replaces the best one
IsBetter_orEqual(cell_count, best) == cell_count >= best

\* line 394
IsBetter(cell_count, best) == cell_count > best

\* A strategy that raises clears the best result
AfterException_reset(best) == <<>>

\* lines 397-398: the handler goes on with the next strategy
AfterException(best) == best

StrategyOutcomes ==
    {[find_raises |-> TRUE, tables |-> <<>>],
     [find_raises |-> FALSE, tables |-> <<>>],
     [find_raises |-> FALSE, tables |-> <<TblBlank>>],
     [find_raises |-> FALSE, tables |-> <<TblEn>>],
     [find_raises |-> FALSE, tables |-> <<TblNote, TblBlank>>],
     [find_raises |-> FALSE, tables |-> <<TblArith>>],
     [find_raises |-> FALSE, tables |-> <<TblArith, RaisingTable>>]}

SelInit ==
    /\ outcomes \in [1..Len(TABLE_STRATEGIES) -> StrategyOutcomes]
    /\ s_pos = 1
    /\ best_tables = <<>>
    /\ best_cell_count = 0
    /\ sel_result = <<>>
    /\ page_report = "none"
    /\ spc = "loop"

\* lines 387-396: an iteration that does not raise
TryStrategy ==
    /\ spc = "loop"
    /\ s_pos <= Len(TABLE_STRATEGIES)
    /\ ~StrategyRaises(outcomes[s_pos])
    /\ \E tables \in {outcomes[s_pos].tables} :
       \E cell_count \in {CellCount(tables)} :
        IF IsBetter(cell_count, best_cell_count)
        THEN /\ best_cell_count' = cell_count
             /\ best_tables' = [i \in 1..Len(tables) |->
                                  <<tables[i], TABLE_STRATEGIES[s_pos]>>]
        ELSE UNCHANGED <<best_cell_count, best_tables>>
    /\ s_pos' = s_pos + 1
    /\ UNCHANGED <<outcomes, sel_result, page_report, spc>>

\* lines 387-398: an iteration that raises before line 394
SkipStrategy ==
    /\ spc = "loop"
    /\ s_pos <= Len(TABLE_STRATEGIES)
    /\ StrategyRaises(outcomes[s_pos])
    /\ best_tables' = AfterException(best_tables)
    /\ s_pos' = s_pos + 1
    /\ UNCHANGED <<outcomes, best_cell_count, sel_result, page_report, spc>>

\* line 400
ReturnBest ==
    /\ spc = "loop"
    /\ s_pos > Len(TABLE_STRATEGIES)
    /\ sel_result' = best_tables
    /\ spc' = "returned"
    /\ UNCHANGED <<outcomes, s_pos, best_tables, best_cell_count, page_report>>

\* lines 522-528 of main
ReportPage ==
    /\ spc = "returned"
    /\ page_report' = IF sel_result = <<>> THEN "no tables detected" ELSE "tables"
    /\ spc' = "done"
    /\ UNCHANGED <<outcomes, s_pos, best_tables, best_cell_count, sel_result>>

SelNext ==
    \/ TryStrategy /\ UNCHANGED <<fmt, normVars, detVars, valVars, artVars, mainVars, cleanVars, footVars, wordVars, precVars, procVars, todoVars, ralphVars>>
    \/ SkipStrategy /\ UNCHANGED <<fmt, normVars, detVars, valVars, artVars, mainVars, cleanVars, footVars, wordVars, precVars, procVars, todoVars, ralphVars>>
    \/ ReturnBest /\ UNCHANGED <<fmt, normVars, detVars, valVars, artVars, mainVars, cleanVars, footVars, wordVars, precVars, procVars, todoVars, ralphVars>>
    \/ ReportPage /\ UNCHANGED <<fmt, normVars, detVars, valVars, artVars, mainVars, cleanVars, footVars, wordVars, precVars, procVars, todoVars, ralphVars>>

InitSelect ==
    SelInit /\ fmt = "en" /\ NormIdle /\ DetIdle /\ ValIdle /\ ArtIdle /\ MainIdle /\ CleanIdle /\ FootIdle /\ WordIdle /\ PrecIdle /\ ProcIdle /\ TodoIdle /\ RalphIdle

SpecSelect == InitSelect /\ [][SelNext]_vars

\* The strategies that did not raise on the page, and the count of each
SucceededStrategies == {s \in 1..Len(TABLE_STRATEGIES) : ~StrategyRaises(outcomes[s])}
CountOf(s) == CellCount(outcomes[s].tables)

\* The earliest of the succeeded strategies with the greatest count
EarliestBest ==
    SetMin({s \in SucceededStrategies :
                \A other \in SucceededStrategies : CountOf(other) <= CountOf(s)})

\* The tables of strategy s, each paired with s
TablesOf(s) ==
    [i \in 1..Len(outcomes[s].tables) |-> <<outcomes[s].tables[i], TABLE_STRATEGIES[s]>>]

\* C17 as stated: what is returned is the tables of the earliest strategy
\* whose count of non-empty cells is the greatest among those that did not
\* fail, each table with that strategy.
C17_EarliestMaximumReturned ==
    (spc \in {"returned", "done"} /\ SucceededStrategies # {}) =>
        sel_result = TablesOf(EarliestBest)

\* C17 amended: the same when the greatest count is at least 1; when no
\* strategy that did not fail has a non-empty cell, nothing is returned.
C17_EarliestPositiveMaximumReturned ==
    spc \in {"returned", "done"} =>
        /\ IF \E s \in SucceededStrategies : CountOf(s) >= 1
           THEN sel_result = TablesOf(EarliestBest)
           ELSE sel_result = <<>>
        /\ \A i \in 1..Len(sel_result) : sel_result[i][2] = sel_result[1][2]

\* Strategies 2 and 3 tie with the greatest count and strategy 1 has a
\* table with no text; strategy 2 is returned
C17_Witness ==
    /\ spc = "returned"
    /\ outcomes[1].tables = <<TblBlank>>
    /\ SucceededStrategies = {1, 2, 3}
    /\ CountOf(2) = CountOf(3)
    /\ CountOf(2) >= 1
    /\ outcomes[2].tables # outcomes[3].tables
    /\ sel_result = TablesOf(2)

\* Every strategy raises or finds no table
NothingFound ==
    \A s \in 1..Len(TABLE_STRATEGIES) :
        StrategyRaises(outcomes[s]) \/ outcomes[s].tables = <<>>

C18_State ==
    /\ spc \in {"loop", "returned", "done"}
    /\ s_pos \in 1..(Len(TABLE_STRATEGIES) + 1)
    /\ spc \in {"returned", "done"} =>
        /\ s_pos = Len(TABLE_STRATEGIES) + 1
        /\ NothingFound => sel_result = <<>>
    /\ (spc = "done" /\ NothingFound) => page_report = "no tables detected"

C18_Step ==
    (spc = "loop" /\ s_pos <= Len(TABLE_STRATEGIES) /\ StrategyRaises(outcomes[s_pos])) =>
        /\ best_tables' = best_tables
        /\ best_cell_count' = best_cell_count
        /\ s_pos' = s_pos + 1
        /\ spc' = "loop"

\* C18: a strategy that raises leaves the best result as it was and the
\* loop goes on with the next strategy; the function returns only after
\* all four strategies, never by raising; when every strategy raises or
\* finds no table the result is the empty list and main reports the page
\* as having no tables.
C18_RaisingStrategySkipped == [](C18_State) /\ [][C18_Step]_vars

\* The first strategy gives a best result, the second raises while its
\* tables are reconstructed, and the result is the first one's tables
C18_Witness ==
    /\ spc = "done"
    /\ outcomes[1].tables = <<TblEn>>
    /\ outcomes[2].tables = <<TblArith, RaisingTable>>
    /\ outcomes[3].find_raises
    /\ outcomes[4].tables = <<>>
    /\ ~outcomes[4].find_raises
    /\ sel_result = TablesOf(1)
    /\ page_report = "tables"

(***************************************************************************)
(* extract_table_with_words (lines 28-89).  A coordinate is a number of    *)
(* half units: the value 25 stands for 12.5.  A box is <<x0, top, x1,      *)
(* bottom>>; a word is a record of a box and a text.                       *)
(***************************************************************************)
\* The coordinate of n units
Units(n) == n + n

\* round(x, 0) of Python: to the nearest integer, a half to the even one;
\* the result is in units
PyRound(h) ==
    IF h % 2 = 0 THEN h \div 2
    ELSE IF ((h - 1) \div 2) % 2 = 0 THEN (h - 1) \div 2 ELSE (h + 1) \div 2

\* sorted(set(...)) of integers
SortedKeys(S) == SortedSeqOf(S)

\* min(keys, key=lambda r: abs(r - v)): the first key of the least distance
NearestKey(keys, v) ==
    LET best == SetMin({Abs(keys[i] - v) : i \in 1..Len(keys)})
    IN  keys[SetMin({i \in 1..Len(keys) : Abs(keys[i] - v) = best})]

\* lines 40-48
RowKeysOf(cs) == SortedKeys({PyRound(cs[i][2]) : i \in 1..Len(cs)})
ColPositionsOf(cs) == SortedKeys({PyRound(cs[i][1]) : i \in 1..Len(cs)})

\* lines 53-54: the key of a cell box
KeyOf(box, rks, cps) ==
    <<NearestKey(rks, PyRound(box[2])), NearestKey(cps, PyRound(box[1]))>>

\* line 55: grid[key] = box.  The dict is a sequence of entries in the
\* order of first insertion; a key that is there keeps its place.
GridPut(g, key, box) ==
    IF \E i \in 1..Len(g) : g[i].key = key
    THEN [i \in 1..Len(g) |-> IF g[i].key = key THEN [key |-> key, box |-> box] ELSE g[i]]
    ELSE Append(g, [key |-> key, box |-> box])

\* lines 50-55
RECURSIVE BuildGridFrom(_, _, _, _)
BuildGridFrom(cs, rks, cps, g) ==
    IF cs = <<>> THEN g
    ELSE BuildGridFrom(Tail(cs), rks, cps, GridPut(g, KeyOf(Head(cs), rks, cps), Head(cs)))

\* line 65, in quarter units: the centre of the word is within 2 units of
\* the box
CentreWithin(word, box) ==
    /\ 2 * (box[1] - Units(2)) <= word.x0 + word.x1
    /\ word.x0 + word.x1 <= 2 * (box[3] + Units(2))
    /\ 2 * (box[2] - Units(2)) <= word.top + word.bottom
    /\ word.top + word.bottom <= 2 * (box[4] + Units(2))

\* line 66
AreaOf(box) == (box[3] - box[1]) * (box[4] - box[2])

\* The larger area replaces the best one
IsSmaller_larger(area, best_area) == area > best_area

\* line 67: area < best_area
IsSmaller(area, best_area) == area < best_area

\* lines 62-69: the loop over grid.items(); best is [cell, area], with
\* cell None before a box matched
RECURSIVE BestCellFrom(_, _, _)
BestCellFrom(word, g, best) ==
    IF g = <<>> THEN best
    ELSE IF CentreWithin(word, Head(g).box)
              /\ (best.cell = None \/ IsSmaller(AreaOf(Head(g).box), best.area))
         THEN BestCellFrom(word, Tail(g), [cell |-> Head(g).key, area |-> AreaOf(Head(g).box)])
         ELSE BestCellFrom(word, Tail(g), best)

BestCell(word, g) == BestCellFrom(word, g, [cell |-> None, area |-> 0]).cell

\* lines 71-74: cell_texts[best_cell].append((x0, top, text))
TextsPut(ct, key, entry) ==
    IF \E i \in 1..Len(ct) : ct[i].key = key
    THEN [i \in 1..Len(ct) |->
            IF ct[i].key = key THEN [key |-> key, words |-> Append(ct[i].words, entry)]
            ELSE ct[i]]
    ELSE Append(ct, [key |-> key, words |-> <<entry>>])

\* key in cell_texts, cell_texts[key]
HasTexts(ct, key) == \E i \in 1..Len(ct) : ct[i].key = key
TextsAt(ct, key) == ct[CHOOSE i \in 1..Len(ct) : ct[i].key = key].words

\* line 82: the key (w[1], w[0]) of an entry <<x0, top, text>>
SortKeyLess(a, b) == a[2] < b[2] \/ (a[2] = b[2] /\ a[1] < b[1])

\* The words of a cell in the order they were assigned
SortedWords_asAssigned(entries) == entries

\* line 82: sorted(..., key=lambda w: (w[1], w[0])); the sort is stable
SortedWords(entries) ==
    LET Before(i, j) ==
            \/ SortKeyLess(entries[i], entries[j])
            \/ (~SortKeyLess(entries[j], entries[i]) /\ i < j)
        Rank(i) == Cardinality({j \in 1..Len(entries) : j # i /\ Before(j, i)})
    IN  [k \in 1..Len(entries) |-> entries[CHOOSE i \in 1..Len(entries) : Rank(i) = k - 1]]

\* lines 82-84
CellText(entries) ==
    Local(SortedWords(entries), LAMBDA sorted_words :
        Strip(JoinWithSpace([k \in 1..Len(sorted_words) |-> sorted_words[k][3]])))

\* lines 76-87
ResultTable(rks, cps, ct) ==
    [i \in 1..Len(rks) |->
        [j \in 1..Len(cps) |->
            IF HasTexts(ct, <<rks[i], cps[j]>>)
            THEN CellText(TextsAt(ct, <<rks[i], cps[j]>>))
            ELSE None]]

MaxCells == 3
MaxWords == 2

BoxA == <<Units(0), Units(0), Units(10), Units(10)>>
BoxB == <<Units(10), Units(0), Units(20), Units(10)>>
\* top 9.5, which rounds to 10
BoxC == <<Units(0), Units(10) - 1, Units(10), Units(20)>>
BoxBig == <<Units(0), Units(0), Units(20), Units(10)>>
\* x0 12.5, which rounds to 12
BoxSmall == <<Units(12) + 1, Units(0), Units(20), Units(10)>>

Boxes == {BoxA, BoxB, BoxC, BoxBig, BoxSmall}

WordAt(x0, top, x1, bottom, text) ==
    [x0 |-> Units(x0), top |-> Units(top), x1 |-> Units(x1), bottom |-> Units(bottom),
     text |-> text]

WFirst == WordAt(1, 1, 5, 3, <<"f", "i", "r", "s", "t">>)
WSecond == WordAt(1, 5, 7, 7, <<"s", "e", "c", "o", "n", "d">>)
WThird == WordAt(6, 1, 9, 3, <<"t", "h", "i", "r", "d">>)
\* centre (12, 5): 2 units right of BoxA, inside BoxB and BoxBig
WEdge == WordAt(11, 4, 13, 6, <<"e", "d", "g", "e">>)
WOut == WordAt(29, 29, 31, 31, <<"o", "u", "t">>)
\* centre (15, 5): inside BoxB, BoxBig and BoxSmall, more than 2 units from BoxA
WWide == WordAt(14, 4, 16, 6, <<"w", "i", "d", "e">>)

Words == {WFirst, WSecond, WThird, WEdge, WOut, WWide}

\* Sequences of at most n different elements of S
DistinctSeqs(n, S) ==
    {s \in StringsUpTo(n, S) : \A i, j \in 1..Len(s) : i # j => s[i] # s[j]}

WordInit ==
    /\ w_words \in StringsUpTo(MaxWords, Words)
    /\ w_cells \in DistinctSeqs(MaxCells, Boxes)
    /\ w_extract \in {<<>>, TblEn}
    /\ row_keys = <<>>
    /\ col_positions = <<>>
    /\ grid = <<>>
    /\ w_pos = 1
    /\ best_cells = <<>>
    /\ cell_texts = <<>>
    /\ w_result = <<>>
    /\ wpc = "call"

\* lines 37-38: a table without cells
ExtractFallback ==
    /\ wpc = "call"
    /\ w_cells = <<>>
    /\ w_result' = w_extract
    /\ wpc' = "done"
    /\ UNCHANGED <<w_words, w_cells, w_extract, row_keys, col_positions, grid, w_pos,
                   best_cells, cell_texts>>

\* lines 40-55
BuildGrid ==
    /\ wpc = "call"
    /\ w_cells # <<>>
    /\ row_keys' = RowKeysOf(w_cells)
    /\ col_positions' = ColPositionsOf(w_cells)
    /\ grid' = BuildGridFrom(w_cells, RowKeysOf(w_cells), ColPositionsOf(w_cells), <<>>)
    /\ wpc' = "words"
    /\ UNCHANGED <<w_words, w_cells, w_extract, w_pos, best_cells, cell_texts, w_result>>

\* lines 58-74: one iteration of the loop over the words
AssignWord ==
    /\ wpc = "words"
    /\ w_pos <= Len(w_words)
    /\ \E word \in {w_words[w_pos]} :
       \E best_cell \in {BestCell(word, grid)} :
        /\ best_cells' = Append(best_cells, best_cell)
        /\ cell_texts' = IF best_cell # None
                         THEN TextsPut(cell_texts, best_cell, <<word.x0, word.top, word.text>>)
                         ELSE cell_texts
    /\ w_pos' = w_pos + 1
    /\ UNCHANGED <<w_words, w_cells, w_extract, row_keys, col_positions, grid, w_result, wpc>>

\* lines 76-89
BuildResult ==
    /\ wpc = "words"
    /\ w_pos > Len(w_words)
    /\ w_result' = ResultTable(row_keys, col_positions, cell_texts)
    /\ wpc' = "done"
    /\ UNCHANGED <<w_words, w_cells, w_extract, row_keys, col_positions, grid, w_pos,
                   best_cells, cell_texts>>

WordNext ==
    \/ ExtractFallback /\ UNCHANGED <<fmt, normVars, detVars, valVars, artVars, mainVars, cleanVars, footVars, selVars, precVars, procVars, todoVars, ralphVars>>
    \/ BuildGrid /\ UNCHANGED <<fmt, normVars, detVars, valVars, artVars, mainVars, cleanVars, footVars, selVars, precVars, procVars, todoVars, ralphVars>>
    \/ AssignWord /\ UNCHANGED <<fmt, normVars, detVars, valVars, artVars, mainVars, cleanVars, footVars, selVars, precVars, procVars, todoVars, ralphVars>>
    \/ BuildResult /\ UNCHANGED <<fmt, normVars, detVars, valVars, artVars, mainVars, cleanVars, footVars, selVars, precVars, procVars, todoVars, ralphVars>>

InitWords ==
    WordInit /\ fmt = "en" /\ NormIdle /\ DetIdle /\ ValIdle /\ ArtIdle /\ MainIdle /\ CleanIdle /\ FootIdle /\ SelIdle /\ PrecIdle /\ ProcIdle /\ TodoIdle /\ RalphIdle

SpecWords == InitWords /\ [][WordNext]_vars

\* Twice the centre of word k, in half units
CentreX2(k) == w_words[k].x0 + w_words[k].x1
CentreY2(k) == w_words[k].top + w_words[k].bottom

\* The entries of the grid whose box, grown by 2 units on every side,
\* contains the centre of word k
MatchingCells(k) ==
    {i \in 1..Len(grid) :
        /\ 2 * grid[i].box[1] - 2 * Units(2) <= CentreX2(k)
        /\ CentreX2(k) <= 2 * grid[i].box[3] + 2 * Units(2)
        /\ 2 * grid[i].box[2] - 2 * Units(2) <= CentreY2(k)
        /\ CentreY2(k) <= 2 * grid[i].box[4] + 2 * Units(2)}

BoxArea(i) == (grid[i].box[3] - grid[i].box[1]) * (grid[i].box[4] - grid[i].box[2])

\* The number of words held by the cells of cell_texts
RECURSIVE HeldWords(_)
HeldWords(ct) == IF ct = <<>> THEN 0 ELSE Len(Head(ct).words) + HeldWords(Tail(ct))

\* C19: a word goes to no cell when no box of the grid, grown by 2 units,
\* contains its centre, and otherwise to exactly one cell, one whose grown
\* box contains the centre and whose area is the least among those.
C19_SmallestMatchingCell ==
    wpc \in {"words", "done"} =>
        /\ Len(best_cells) = w_pos - 1
        /\ \A k \in 1..Len(best_cells) :
            /\ best_cells[k] = None <=> MatchingCells(k) = {}
            /\ best_cells[k] # None =>
                /\ \E i \in MatchingCells(k) :
                    /\ grid[i].key = best_cells[k]
                    /\ \A j \in MatchingCells(k) : BoxArea(i) <= BoxArea(j)
                /\ HasTexts(cell_texts, best_cells[k])
                /\ \E n \in 1..Len(TextsAt(cell_texts, best_cells[k])) :
                    TextsAt(cell_texts, best_cells[k])[n]
                        = <<w_words[k].x0, w_words[k].top, w_words[k].text>>
        /\ HeldWords(cell_texts) = Cardinality({k \in 1..Len(best_cells) : best_cells[k] # None})

\* The word at (12, 5) matches BoxA, BoxB and BoxSmall and goes to BoxSmall;
\* the word at (30, 30) goes nowhere
C19_Witness ==
    /\ wpc = "done"
    /\ w_cells = <<BoxA, BoxB, BoxSmall>>
    /\ w_words = <<WEdge, WOut>>
    /\ Cardinality(MatchingCells(1)) = 3
    /\ best_cells = <<<<0, 12>>, None>>
    /\ w_result = <<<<None, None, WEdge.text>>>>

\* The orders of the entries that go by (top, x0)
ReadingOrders(entries) ==
    {p \in [1..Len(entries) -> 1..Len(entries)] :
        /\ \A i, j \in 1..Len(entries) : i # j => p[i] # p[j]
        /\ \A i \in 1..(Len(entries) - 1) :
            \/ entries[p[i]][2] < entries[p[i + 1]][2]
            \/ /\ entries[p[i]][2] = entries[p[i + 1]][2]
               /\ entries[p[i]][1] <= entries[p[i + 1]][1]}

\* The texts of the entries in the order p with one space between them
RECURSIVE SpacedTexts(_, _, _)
SpacedTexts(entries, p, k) ==
    IF k > Len(entries) THEN <<>>
    ELSE IF k = Len(entries) THEN entries[p[k]][3]
    ELSE entries[p[k]][3] \o <<" ">> \o SpacedTexts(entries, p, k + 1)

\* C20: the table returned has one row per row key and one cell per column
\* position; a position no word went to is None; any other holds the
\* texts of its words in (top, x0) order with one space between
\* consecutive words; two words of one cell give "first second", the
\* upper one first, and on one line the left one first.
C20_ReadingOrderJoin ==
    (wpc = "done" /\ w_cells # <<>>) =>
        /\ Len(w_result) = Len(row_keys)
        /\ \A i \in 1..Len(row_keys) :
            /\ Len(w_result[i]) = Len(col_positions)
            /\ \A j \in 1..Len(col_positions) :
                IF HasTexts(cell_texts, <<row_keys[i], col_positions[j]>>)
                THEN \E entries \in {TextsAt(cell_texts, <<row_keys[i], col_positions[j]>>)} :
                     \E p \in ReadingOrders(entries) :
                        w_result[i][j] = SpacedTexts(entries, p, 1)
                ELSE w_result[i][j] = None
        /\ (w_cells = <<BoxA>> /\ w_words = <<WSecond, WFirst>>) =>
                w_result = <<<<WFirst.text \o <<" ">> \o WSecond.text>>>>
        /\ (w_cells = <<BoxA>> /\ w_words = <<WThird, WFirst>>) =>
                w_result = <<<<WFirst.text \o <<" ">> \o WThird.text>>>>

\* Two words given lower one first, in a cell with no competing cell, and
\* an empty position beside it
C20_Witness ==
    /\ wpc = "done"
    /\ w_cells = <<BoxA, BoxC>>
    /\ w_words = <<WSecond, WFirst>>
    /\ best_cells = <<<<0, 0>>, <<0, 0>>>>
    /\ w_result = <<<<WFirst.text \o <<" ">> \o WSecond.text>>, <<None>>>>

\* The cell holds the text as one of its space-separated words
CellHolds(cell, text) ==
    /\ cell # None
    /\ \E s \in 1..(Len(cell) - Len(text) + 1) :
        /\ SubSeq(cell, s, s + Len(text) - 1) = text
        /\ (s = 1 \/ cell[s - 1] = " ")
        /\ (s + Len(text) - 1 = Len(cell) \/ cell[s + Len(text)] = " ")

\* The positions of the returned table that hold the text
PositionsHolding(text) ==
    {ij \in (1..Len(w_result)) \X (1..Len(col_positions)) :
        CellHolds(w_result[ij[1]][ij[2]], text)}

\* The word's centre is within 2 units of a cell box of the table
InSomeCellBox(word) == \E c \in 1..Len(w_cells) : CentreWithin(word, w_cells[c])

\* C21: for a table with cell boxes, every word whose centre is within 2
\* units of at least one cell box of the table has its text in exactly one
\* cell of the returned table, also when two boxes round to one key.
C21_ContainedWordKept ==
    (wpc = "done" /\ w_cells # <<>>) =>
        \A k \in 1..Len(w_words) :
            InSomeCellBox(w_words[k]) =>
                Cardinality(PositionsHolding(w_words[k].text)) = 1

\* C22: process_table leaves the raw table it is given as it was: after the
\* table loop has processed a table, the table the page loop stored and each
\* of its rows hold the cells pdfplumber gave.
C22_RawTableUnchanged ==
    \A p \in 1..Len(page_tables) :
        page_tables[p].tables = pdf_pages[page_tables[p].page]

\* C23: every numeric-shaped cell of the rows written for a table is written
\* as its normalized number string under the format of the run, not as the
\* text that was extracted.
C23_CsvCellsNormalized ==
    \A k \in 1..Len(csv_files) :
        \E dr \in {DataRowsOf(k)} :
            \A i \in 1..Len(dr) : \A j \in 1..Len(dr[i]) :
                normalize_number_string(dr[i][j], main_fmt) # None =>
                    csv_files[k].rows[i][j] = normalize_number_string(dr[i][j], main_fmt)

(***************************************************************************)
(* validate_row_totals on numbers that reach the precision of the decimal  *)
(* context.  A Decimal is [digits, exp]: the digits of its coefficient as  *)
(* characters, without leading zeros, and the number of fractional digits  *)
(* (minus the exponent of the Decimal).  The rows hold no negative number. *)
(***************************************************************************)
\* decimal.getcontext().prec of the default context
DecimalPrec == 28

RECURSIVE StripLeadingZeros(_)
StripLeadingZeros(ds) ==
    IF Len(ds) > 1 /\ ds[1] = "0" THEN StripLeadingZeros(Tail(ds)) ELSE ds

PadLeft(ds, n) == Zeros(n - Len(ds)) \o ds

\* The digits of ds1[1..i] + ds2[1..i] + carry
RECURSIVE AddCarry(_, _, _, _)
AddCarry(ds1, ds2, i, carry) ==
    IF i = 0 THEN (IF carry = 1 THEN <<"1">> ELSE <<>>)
    ELSE Local(DigitVal(ds1[i]) + DigitVal(ds2[i]) + carry, LAMBDA s :
            Append(AddCarry(ds1, ds2, i - 1, s \div 10), DigitChar(s % 10)))

\* The digits of ds1[1..i] - ds2[1..i] - borrow, for ds1 >= ds2
RECURSIVE SubBorrow(_, _, _, _)
SubBorrow(ds1, ds2, i, borrow) ==
    IF i = 0 THEN <<>>
    ELSE Local(DigitVal(ds1[i]) - DigitVal(ds2[i]) - borrow, LAMBDA s :
            Append(SubBorrow(ds1, ds2, i - 1, IF s < 0 THEN 1 ELSE 0),
                   DigitChar(IF s < 0 THEN s + 10 ELSE s)))

\* ds1 < ds2 for digit strings of one length
LessDigits(ds1, ds2) ==
    \E i \in 1..Len(ds1) :
        /\ DigitVal(ds1[i]) < DigitVal(ds2[i])
        /\ \A j \in 1..(i - 1) : ds1[j] = ds2[j]

BigDec(digits, exp) == [none |-> FALSE, digits |-> StripLeadingZeros(digits), exp |-> exp]

\* The digits of x at frac fractional digits (frac >= x.exp), left-padded to n
DigitsAt(x, frac, n) == PadLeft(x.digits \o Zeros(frac - x.exp), n)

WidthAt(a, b, frac) ==
    Max2(Len(a.digits) + frac - a.exp, Len(b.digits) + frac - b.exp)

\* a + b and |a - b| without rounding
BigAddExact(a, b) ==
    Local(Max2(a.exp, b.exp), LAMBDA frac :
    Local(WidthAt(a, b, frac), LAMBDA n :
        BigDec(AddCarry(DigitsAt(a, frac, n), DigitsAt(b, frac, n), n, 0), frac)))

BigAbsDiffExact(a, b) ==
    Local(Max2(a.exp, b.exp), LAMBDA frac :
    Local(WidthAt(a, b, frac), LAMBDA n :
        IF LessDigits(DigitsAt(a, frac, n), DigitsAt(b, frac, n))
        THEN BigDec(SubBorrow(DigitsAt(b, frac, n), DigitsAt(a, frac, n), n, 0), frac)
        ELSE BigDec(SubBorrow(DigitsAt(a, frac, n), DigitsAt(b, frac, n), n, 0), frac)))

\* Decimal._fix: a coefficient longer than the precision is rounded to it,
\* half to even, and the exponent grows by the digits dropped
BigFix(x) ==
    IF Len(x.digits) <= DecimalPrec THEN x
    ELSE
    LET keep == SubSeq(x.digits, 1, DecimalPrec)
        rest == Drop(x.digits, DecimalPrec)
        first == DigitVal(rest[1])
        up == \/ first > 5
              \/ /\ first = 5
                 /\ \/ \E i \in 2..Len(rest) : rest[i] # "0"
                    \/ DigitVal(keep[DecimalPrec]) % 2 = 1
        rounded == IF up
                   THEN AddCarry(keep, PadLeft(<<"1">>, DecimalPrec), DecimalPrec, 0)
                   ELSE keep
    IN  IF Len(rounded) > DecimalPrec
        THEN [none |-> FALSE, digits |-> SubSeq(rounded, 1, DecimalPrec),
              exp |-> x.exp - Len(rest) - 1]
        ELSE [none |-> FALSE, digits |-> rounded, exp |-> x.exp - Len(rest)]

\* a + b, abs(a - b), a == b under the context
BigAdd(a, b) == BigFix(BigAddExact(a, b))
BigAbsDiff(a, b) == BigFix(BigAbsDiffExact(a, b))
BigEq(a, b) ==
    Local(Max2(a.exp, b.exp), LAMBDA frac :
    Local(WidthAt(a, b, frac), LAMBDA n : DigitsAt(a, frac, n) = DigitsAt(b, frac, n)))

\* Decimal(s) for a normalized number string without a sign; to_decimal
\* returns None for None
BigCtor(s) ==
    IF s = None THEN NoDecimal
    ELSE
    LET dots == {i \in 1..Len(s) : s[i] = "."}
        ip == IF dots = {} THEN s ELSE SubSeq(s, 1, SetMin(dots) - 1)
        fp == IF dots = {} THEN <<>> ELSE Drop(s, SetMin(dots))
    IN  BigDec(ip \o fp, Len(fp))

\* str(x) (decimal.Decimal.__str__)
BigStr(x) ==
    LET leftdigits == Len(x.digits) - x.exp
        dotplace == IF x.exp >= 0 /\ leftdigits > -6 THEN leftdigits ELSE 1
        intpart ==
            IF dotplace <= 0 THEN <<"0">>
            ELSE IF dotplace >= Len(x.digits)
                 THEN x.digits \o Zeros(dotplace - Len(x.digits))
                 ELSE SubSeq(x.digits, 1, dotplace)
        fracpart ==
            IF dotplace <= 0 THEN <<".">> \o Zeros(0 - dotplace) \o x.digits
            ELSE IF dotplace >= Len(x.digits) THEN <<>>
                 ELSE <<".">> \o Drop(x.digits, dotplace)
        exppart ==
            IF leftdigits = dotplace THEN <<>>
            ELSE <<"E", IF leftdigits > dotplace THEN "+" ELSE "-">>
                    \o NatStr(Abs(leftdigits - dotplace))
    IN  intpart \o fracpart \o exppart

\* lines 411-416: the numeric cells of a row
RECURSIVE BigRowNums(_, _)
BigRowNums(row, f) ==
    IF row = <<>> THEN <<>>
    ELSE Local(BigCtor(normalize_number_string(Head(row), f)), LAMBDA dec :
            (IF dec.none THEN <<>> ELSE <<dec>>) \o BigRowNums(Tail(row), f))

\* line 423: sum(d for _, d in parts), which starts from int 0
RECURSIVE BigSumParts(_, _)
BigSumParts(parts, acc) ==
    IF parts = <<>> THEN acc
    ELSE Local(BigAdd(acc, Head(parts)), LAMBDA s : BigSumParts(Tail(parts), s))

\* lines 411-435: the result appended for one row
BigValidateRow(row_idx, row, f) ==
    Local(BigRowNums(row, f), LAMBDA ns :
    IF TooFewNumeric(ns)
    THEN [row |-> row_idx, status |-> "skipped", reason |-> "fewer than 3 numeric cells"]
    ELSE
    Local(ns[Len(ns)], LAMBDA last_val :
    Local(BigSumParts(SubSeq(ns, 1, Len(ns) - 1), BigDec(<<"0">>, 0)), LAMBDA part_sum :
        IF BigEq(part_sum, last_val)
        THEN [row |-> row_idx, status |-> "pass",
              expected |-> BigStr(last_val), computed |-> BigStr(part_sum)]
        ELSE [row |-> row_idx, status |-> "mismatch",
              expected |-> BigStr(last_val), computed |-> BigStr(part_sum),
              diff |-> BigStr(BigAbsDiff(part_sum, last_val))])))

MaxPrecRow == 3

Nines28 == [i \in 1..DecimalPrec |-> "9"]
Ten28 == <<"1">> \o Zeros(DecimalPrec)
PrecCells ==
    {LabelSample, Nines28, Nines28 \o <<".", "5">>, Ten28, Append(Zeros(DecimalPrec), "1"),
     <<"1">>, <<"0", ".", "5">>, <<"0", ".", "1">>, <<"0", ".", "2">>, <<"0", ".", "3">>}

PrecInit ==
    /\ big_rows \in {<<r>> : r \in UNION {[1..k -> PrecCells] : k \in 3..MaxPrecRow}}
    /\ big_fmt \in Formats
    /\ big_validations = <<>>
    /\ bpc = "call"

\* lines 403-437
PrecValidate ==
    /\ bpc = "call"
    /\ big_validations' = [i \in 1..Len(big_rows) |-> BigValidateRow(i - 1, big_rows[i], big_fmt)]
    /\ bpc' = "done"
    /\ UNCHANGED <<big_rows, big_fmt>>

PrecNext ==
    PrecValidate /\ UNCHANGED <<fmt, normVars, detVars, valVars, artVars, mainVars, cleanVars, footVars, selVars, wordVars, procVars, todoVars, ralphVars>>

InitPrec ==
    PrecInit /\ fmt = "en" /\ NormIdle /\ DetIdle /\ ValIdle /\ ArtIdle /\ MainIdle /\ CleanIdle /\ FootIdle /\ SelIdle /\ WordIdle /\ ProcIdle /\ TodoIdle /\ RalphIdle

SpecPrec == InitPrec /\ [][PrecNext]_vars

\* The sum of the parts without rounding
RECURSIVE ExactSum(_, _)
ExactSum(parts, acc) ==
    IF parts = <<>> THEN acc
    ELSE Local(BigAddExact(acc, Head(parts)), LAMBDA s : ExactSum(Tail(parts), s))

ExactPartSum(ns) == ExactSum(SubSeq(ns, 1, Len(ns) - 1), BigDec(<<"0">>, 0))

\* C24: validation compares exact decimal values: a row of three or more
\* numbers whose parts sum exactly to its total (such as "0.1", "0.2",
\* "0.3") is validated as pass, and the diff of a mismatch is the exact
\* difference of the sum of the parts and the total.
C24_ExactSumPasses ==
    bpc = "done" =>
        \A i \in 1..Len(big_rows) :
            \E ns \in {BigRowNums(big_rows[i], big_fmt)} :
                Len(ns) >= 3 =>
                    /\ BigEq(ExactPartSum(ns), ns[Len(ns)]) =>
                            big_validations[i].status = "pass"
                    /\ big_validations[i].status = "mismatch" =>
                            big_validations[i].diff =
                                BigStr(BigAbsDiffExact(ExactPartSum(ns), ns[Len(ns)]))

\* C25: for a normalized number string, the string of its Decimal is
\* accepted by the normalizer, and the Decimal of that string has the same
\* string and the same value.
C25_DecimalRoundTrip ==
    (npc = "done" /\ ~d.none) =>
        \E t \in {DecStr(d)} :
        \E n \in {normalize_number_string(t, "en")} :
            /\ n # None
            /\ \E r \in {to_decimal(n)} :
                /\ r.exc = "none"
                /\ ~r.val.none
                /\ DecStr(r.val) = t
                /\ DecEq(r.val, d)

\* The cells of the pool with group-and-decimal evidence, and with only a
\* trailing bare group, for each convention
FullEnCells == {EnFull, EnFull2}
FullEsCells == {EsFull, EsFull2, EsFullGroup}
BareEnCells == {EnBare}
BareEsCells == {EsBare}

PoolCount(S) == Cardinality({i \in 1..Len(cells) : cells[i] \in S})

\* One cell with full evidence for one convention and one with only a
\* trailing bare group for the other
FullAgainstBare(full, bare) ==
    /\ Len(cells) = 2
    /\ \E i, j \in 1..2 : i # j /\ cells[i] \in full /\ cells[j] \in bare

\* C26 as stated: a pool of one cell with full evidence for one convention
\* and one cell with only a trailing bare group for the other is decided for
\* the convention with the full evidence.
C26_FullEvidenceWins ==
    dpc = "done" =>
        /\ FullAgainstBare(FullEsCells, BareEnCells) => detected = "es"
        /\ FullAgainstBare(FullEnCells, BareEsCells) => detected = "en"

\* C26, amended: a trailing bare group counts one vote, as full evidence
\* does; it is weaker only inside a cell, where it is looked at after the
\* full patterns and only when the other separator is absent.  One full
\* cell against one bare cell of the other convention is a tie, decided
\* "en" whichever side has the full evidence.
C26_BareGroupCountsOneVote ==
    dpc = "done" =>
        /\ en_evidence = PoolCount(FullEnCells) + PoolCount(BareEnCells)
        /\ es_evidence = PoolCount(FullEsCells) + PoolCount(BareEsCells)
        /\ (FullAgainstBare(FullEsCells, BareEnCells)
                \/ FullAgainstBare(FullEnCells, BareEsCells)) =>
             /\ en_evidence = 1
             /\ es_evidence = 1
             /\ detected = "en"
        /\ cells = <<EsFullGroup>> => (en_evidence = 0 /\ es_evidence = 1)

\* "1.234,56" against "1,234": a tie, decided "en"
C26_Witness ==
    /\ dpc = "done"
    /\ cells = <<EsFull, EnBare>>
    /\ en_evidence = 1
    /\ es_evidence = 1
    /\ detected = "en"

\* The cells of the first column that are among S
FirstColumnCount(S) ==
    Cardinality({i \in 1..Len(table) : table[i] # <<>> /\ table[i][1] \in S})

\* The non-empty cells of the samples: the RGB triple, and the cells made
\* of one, two or four integers of 0..255
TripleCells == {RgbCell}
SmallIntegerCells == {SmallCell, PairCell, QuadCell}
OtherTextCells == {BigCell, LabelSample}

\* C27 as stated: only an RGB triple counts toward the artifact ratio, so a
\* first column is stripped only when more than 70% of its non-empty cells
\* are triples; a first column of plain small numbers is kept.
C27_OnlyTriplesCount ==
    (apc = "done" /\ table # <<>>) =>
        Local(FirstColumnCount(TripleCells \cup SmallIntegerCells \cup OtherTextCells),
              LAMBDA non_empty :
            non_empty >= 1 =>
                (strip_count >= 1 <=> 10 * FirstColumnCount(TripleCells) > 7 * non_empty))

\* C27, amended: a non-empty cell counts toward the artifact ratio when
\* every part of it is an integer of 0..255, whatever the number of parts:
\* "12", "12 5" and "1,2,3,4" count as the triple does, "300" and a label
\* do not; a first column of plain small numbers is stripped.
C27_SmallIntegersCount ==
    (apc = "done" /\ table # <<>>) =>
        Local(FirstColumnCount(TripleCells \cup SmallIntegerCells \cup OtherTextCells),
              LAMBDA non_empty :
            /\ non_empty = NonEmptyIn(0)
            /\ ArtifactsIn(0) = FirstColumnCount(TripleCells \cup SmallIntegerCells)
            /\ non_empty >= 1 =>
                (strip_count >= 1 <=>
                    10 * FirstColumnCount(TripleCells \cup SmallIntegerCells) > 7 * non_empty))

\* A first column of "12" and "12 5" before a column of labels: stripped
C27_Witness ==
    /\ apc = "done"
    /\ table = <<<<SmallCell, LabelSample>>, <<PairCell, LabelSample>>>>
    /\ strip_count = 1

(***************************************************************************)
(* process_table (lines 440-456) on tables of a few rows                   *)
(***************************************************************************)
MaxProcRows == 3

ProcRows ==
    {<<StarNote, N100>>, <<NumberedNote, None>>, <<LabelSample, N100>>, <<None, N50>>,
     <<BlankCell, N150>>, <<None, BulletCell>>, <<None, None>>}

ProcInit ==
    /\ proc_table \in StringsUpTo(MaxProcRows, ProcRows)
    /\ proc_result = [data_rows |-> <<>>, footnotes |-> <<>>, raw |-> <<>>]
    /\ ppc = "call"

ProcessTable ==
    /\ ppc = "call"
    /\ proc_result' = process_table(proc_table, "en")
    /\ ppc' = "done"
    /\ UNCHANGED proc_table

ProcNext ==
    ProcessTable /\ UNCHANGED <<fmt, normVars, detVars, valVars, artVars, mainVars, cleanVars, footVars, selVars, wordVars, precVars, todoVars, ralphVars>>

InitProc ==
    ProcInit /\ fmt = "en" /\ NormIdle /\ DetIdle /\ ValIdle /\ ArtIdle /\ MainIdle /\ CleanIdle /\ FootIdle /\ SelIdle /\ WordIdle /\ PrecIdle /\ TodoIdle /\ RalphIdle

SpecProc == InitProc /\ [][ProcNext]_vars

\* The rows of the table after cleaning, before the labels are filled
CleanedRows == clean_presentation_artifacts(proc_table)

\* The cleaned rows that are footnotes, and that are data, on their own cells
OwnFootnotes == {i \in 1..Len(CleanedRows) : is_footnote_row(CleanedRows[i])}
OwnData == {i \in 1..Len(CleanedRows) : ~is_footnote_row(CleanedRows[i])}

\* The k-th element of a set of row numbers
NthOf(S, k) == CHOOSE i \in S : Cardinality({j \in S : j < i}) = k - 1

\* C28: process_table classifies each cleaned row on its own cells, as they
\* are before the labels are filled: the footnotes are the rows that meet a
\* footnote condition themselves, the data rows are the others in their
\* order (a row with a blank first cell after a footnote row among them),
\* and every cleaned row is in exactly one of the two lists.
C28_ClassifiedOnOwnCells ==
    ppc = "done" =>
        /\ Len(proc_result.data_rows) + Len(proc_result.footnotes) = Len(CleanedRows)
        /\ Len(proc_result.footnotes) = Cardinality(OwnFootnotes)
        /\ Len(proc_result.data_rows) = Cardinality(OwnData)
        /\ \A k \in 1..Len(proc_result.data_rows) :
            k <= Cardinality(OwnData) =>
                Tail(proc_result.data_rows[k]) = Tail(CleanedRows[NthOf(OwnData, k)])

(***************************************************************************)
(* src/shared/hooks/todo-enforcer.py: one run of the stop hook per step.   *)
(* The config file is the state kept between runs; the input of a run is   *)
(* the JSON on stdin, the ralph-loop file and the transcript.              *)
(***************************************************************************)
\* line 16
MAX_CONSECUTIVE_BLOCKS == 10

\* The longest run of block decisions that is followed
MaxBlocksInRow == 11

Sessions == {"s1", "s2"}

\* What the transcript gives: no path or no file (lines 89-93), an error
\* while reading (112-115), no todos (117-120), todos all completed
\* (129-132), or incomplete todos
Transcripts == {"missing", "unreadable", "no_todos", "completed", "incomplete"}

HookInputs ==
    [parsed : BOOLEAN, session_id : Sessions, stop_hook_active : BOOLEAN,
     ralph_loop : BOOLEAN, transcript : Transcripts]

\* line 38: the config of load_config when there is no file
DefaultConfig == [enabled |-> TRUE, block_count |-> 0, last_block_session |-> "none"]

\* lines 84-87
AfterStopHookActive(config, inp) ==
    IF inp.stop_hook_active /\ config.last_block_session = inp.session_id
    THEN [config EXCEPT !.block_count = 0]
    ELSE config

\* lines 135-138
NextBlockCount(config, inp) ==
    IF config.last_block_session = inp.session_id THEN config.block_count + 1 ELSE 1

\* lines 58-176: the config file after the run and the decision
TodoMain(config, inp) ==
    IF ~config.enabled THEN [config |-> config, decision |-> "allow"]
    ELSE IF ~inp.parsed THEN [config |-> config, decision |-> "allow"]
    ELSE IF inp.ralph_loop THEN [config |-> config, decision |-> "allow"]
    ELSE
    Local(AfterStopHookActive(config, inp), LAMBDA c1 :
        IF inp.transcript = "missing" THEN [config |-> c1, decision |-> "allow"]
        ELSE IF inp.transcript \in {"unreadable", "no_todos", "completed"}
        THEN [config |-> [c1 EXCEPT !.block_count = 0], decision |-> "allow"]
        ELSE
        Local(NextBlockCount(c1, inp), LAMBDA block_count :
            IF block_count >= MAX_CONSECUTIVE_BLOCKS
            THEN [config |-> [c1 EXCEPT !.block_count = 0], decision |-> "allow"]
            ELSE [config |-> [c1 EXCEPT !.block_count = block_count,
                                        !.last_block_session = inp.session_id],
                  decision |-> "block"]))

TodoInit ==
    /\ todo_config \in {DefaultConfig, [DefaultConfig EXCEPT !.enabled = FALSE]}
    /\ todo_decision = "none"
    /\ todo_session = "none"
    /\ blocks_in_row = 0

\* One run of the hook
TodoHook ==
    /\ blocks_in_row < MaxBlocksInRow
    /\ \E inp \in HookInputs :
       \E r \in {TodoMain(todo_config, inp)} :
        /\ todo_config' = r.config
        /\ todo_decision' = r.decision
        /\ todo_session' = inp.session_id
        /\ blocks_in_row' =
             IF r.decision # "block" THEN 0
             ELSE IF todo_decision = "block" /\ todo_session = inp.session_id
                  THEN blocks_in_row + 1
                  ELSE 1

TodoNext ==
    TodoHook /\ UNCHANGED <<fmt, normVars, detVars, valVars, artVars, mainVars, cleanVars, footVars, selVars, wordVars, precVars, procVars, ralphVars>>

InitTodo ==
    TodoInit /\ fmt = "en" /\ NormIdle /\ DetIdle /\ ValIdle /\ ArtIdle /\ MainIdle /\ CleanIdle /\ FootIdle /\ SelIdle /\ WordIdle /\ PrecIdle /\ ProcIdle /\ RalphIdle

SpecTodo == InitTodo /\ [][TodoNext]_vars

\* C29: the hook never emits MAX_CONSECUTIVE_BLOCKS block decisions in a row
\* in one session, whatever stop_hook_active is: the 10th run in a row
\* allows the exit.
C29_FewerThanTenBlocksInRow == blocks_in_row < MAX_CONSECUTIVE_BLOCKS

(***************************************************************************)
(* src/shared/hooks/stop-hook.py: one run of the ralph-loop stop hook per  *)
(* step.  The state file is [exists, frontmatter, promise, prompt]: the    *)
(* lines between the two "---" lines as strings of characters, whether a   *)
(* completion promise is set and whether there is prompt text after the    *)
(* frontmatter (text with no line that starts with "iteration:").  The     *)
(* read of line 83 and the write of line 171 succeed.                      *)
(***************************************************************************)
IterationKey == <<"i", "t", "e", "r", "a", "t", "i", "o", "n">>
MaxIterationsKey == <<"m", "a", "x", "_">> \o IterationKey \o <<"s">>

\* lines 34-37: one pair of quotes around the value is removed
Unquote(value) ==
    IF value # <<>> /\ value[1] = "\"" /\ value[Len(value)] = "\""
    THEN SubSeq(value, 2, Len(value) - 1)
    ELSE IF value # <<>> /\ value[1] = "'" /\ value[Len(value)] = "'"
    THEN SubSeq(value, 2, Len(value) - 1)
    ELSE value

\* lines 31-38: the key and the value of a frontmatter line with a ":"
FrontmatterEntry(line) ==
    Local(SetMin({k \in 1..Len(line) : line[k] = ":"}), LAMBDA colon :
        [key |-> Strip(SubSeq(line, 1, colon - 1)),
         value |-> Unquote(Strip(Drop(line, colon)))])

\* lines 29-40 and frontmatter.get(key, ''): the value of the last line
\* with the key, '' when there is none
FrontmatterGet(frontmatter, key) ==
    Local({k \in 1..Len(frontmatter) :
              /\ Contains(frontmatter[k], ":")
              /\ FrontmatterEntry(frontmatter[k]).key = key}, LAMBDA found :
        IF found = {} THEN <<>> ELSE FrontmatterEntry(frontmatter[SetMax(found)]).value)

\* str.isdigit() over the characters of the model
IsDigitString(s) == s # <<>> /\ AllDigits(s)

\* The number of digits a string starts with
DigitPrefix(s) == Cardinality({k \in 1..Len(s) : \A j \in 1..k : s[j] \in Digits})

\* The pattern ^iteration:\s*\d+ matches at the start of the line
IterationLineMatches(line) ==
    /\ StartsWith(line, Append(IterationKey, ":"))
    /\ DigitPrefix(LStrip(Drop(line, Len(IterationKey) + 1))) >= 1

\* The line with the match replaced by "iteration: <next_iteration>"
IterationLineSub(line, next_iteration) ==
    Local(LStrip(Drop(line, Len(IterationKey) + 1)), LAMBDA rest :
        IterationKey \o <<":", " ">> \o NatStr(next_iteration)
            \o Drop(rest, DigitPrefix(rest)))

\* lines 162-168: re.sub with count=1 replaces in the first line that matches
UpdatedFrontmatter(frontmatter, next_iteration) ==
    Local({k \in 1..Len(frontmatter) : IterationLineMatches(frontmatter[k])}, LAMBDA found :
        IF found = {} THEN frontmatter
        ELSE [frontmatter EXCEPT ![SetMin(found)] =
                IterationLineSub(frontmatter[SetMin(found)], next_iteration)])

\* state_file.unlink()
Unlinked == [exists |-> FALSE, frontmatter |-> <<>>, promise |-> FALSE, prompt |-> FALSE]

\* line 105
MaxReached(iteration, max_iterations) ==
    max_iterations > 0 /\ iteration >= max_iterations

\* lines 70-187: the state file after the run and the decision.  The
\* transcript of a run gives no usable assistant text ("missing", lines
\* 110-145), text that fulfils the promise ("promise") or other text.
RalphMain(file, inp) ==
    IF ~inp.parsed \/ ~file.exists THEN [file |-> file, decision |-> "allow"]
    ELSE
    Local(FrontmatterGet(file.frontmatter, IterationKey), LAMBDA iteration_str :
    Local(FrontmatterGet(file.frontmatter, MaxIterationsKey), LAMBDA max_iterations_str :
        IF ~IsDigitString(iteration_str) \/ ~IsDigitString(max_iterations_str)
        THEN [file |-> Unlinked, decision |-> "allow"]
        ELSE IF MaxReached(NatOf(iteration_str), NatOf(max_iterations_str))
        THEN [file |-> Unlinked, decision |-> "allow"]
        ELSE IF inp.transcript = "missing"
        THEN [file |-> Unlinked, decision |-> "allow"]
        ELSE IF file.promise /\ inp.transcript = "promise"
        THEN [file |-> Unlinked, decision |-> "allow"]
        ELSE IF ~file.prompt
        THEN [file |-> Unlinked, decision |-> "allow"]
        ELSE [file |-> [file EXCEPT !.frontmatter =
                            UpdatedFrontmatter(file.frontmatter, NatOf(iteration_str) + 1)],
              decision |-> "block"]))

\* The greatest iteration and max_iterations of the state files, and the
\* greatest number of block decisions that is followed
MaxIterations == 3
MaxRalphBlocks == 5

\* The forms of the iteration line
IterationLines(i) ==
    {IterationKey \o <<":", " ">> \o NatStr(i),
     IterationKey \o <<":">> \o NatStr(i),
     IterationKey \o <<":", " ", "\"">> \o NatStr(i) \o <<"\"">>,
     <<" ">> \o IterationKey \o <<":", " ">> \o NatStr(i),
     IterationKey \o <<":", " ", "x">>}

MaxIterationsLines(n) ==
    {MaxIterationsKey \o <<":", " ">> \o NatStr(n), MaxIterationsKey \o <<":", " ", "x">>}

StateFiles ==
    {[exists |-> TRUE, frontmatter |-> <<il, ml>>, promise |-> pr, prompt |-> pt] :
        il \in UNION {IterationLines(i) : i \in 0..MaxIterations},
        ml \in UNION {MaxIterationsLines(n) : n \in 0..MaxIterations},
        pr \in BOOLEAN, pt \in BOOLEAN}

\* The iteration the frontmatter of the file parses to, -1 when it is not numeric
StoredIteration(file) ==
    Local(FrontmatterGet(file.frontmatter, IterationKey), LAMBDA s :
        IF IsDigitString(s) THEN NatOf(s) ELSE 0 - 1)

StoredMaxIterations(file) ==
    Local(FrontmatterGet(file.frontmatter, MaxIterationsKey), LAMBDA s :
        IF IsDigitString(s) THEN NatOf(s) ELSE 0 - 1)

RalphInputs == [parsed : BOOLEAN, transcript : {"missing", "promise", "text"}]

RalphInit ==
    /\ ralph_file \in StateFiles \cup {Unlinked}
    /\ ralph_decision = "none"
    /\ ralph_first = StoredIteration(ralph_file)
    /\ ralph_blocks = 0

\* One run of the hook
RalphHook ==
    /\ ralph_blocks < MaxRalphBlocks
    /\ \E inp \in RalphInputs :
       \E r \in {RalphMain(ralph_file, inp)} :
        /\ ralph_file' = r.file
        /\ ralph_decision' = r.decision
        /\ ralph_blocks' = IF r.decision = "block" THEN ralph_blocks + 1 ELSE ralph_blocks
    /\ UNCHANGED ralph_first

RalphNext ==
    RalphHook /\ UNCHANGED <<fmt, normVars, detVars, valVars, artVars, mainVars, cleanVars, footVars, selVars, wordVars, precVars, procVars, todoVars>>

InitRalph ==
    RalphInit /\ fmt = "en" /\ NormIdle /\ DetIdle /\ ValIdle /\ ArtIdle /\ MainIdle /\ CleanIdle /\ FootIdle /\ SelIdle /\ WordIdle /\ PrecIdle /\ ProcIdle /\ TodoIdle

SpecRalph == InitRalph /\ [][RalphNext]_vars

\* C30: while the state file is there with a numeric iteration and a
\* max_iterations m > 0, the iteration stored is the one the file started
\* with plus the number of block decisions, and the hook has blocked at
\* most m - i times for the starting iteration i.
C30_BlocksBoundedByMaxIterations ==
    (/\ ralph_file.exists
     /\ ralph_first >= 0
     /\ StoredMaxIterations(ralph_file) > 0)
        => /\ StoredIteration(ralph_file) = ralph_first + ralph_blocks
           /\ ralph_blocks <= Max2(0, StoredMaxIterations(ralph_file) - ralph_first)

====
